---- MODULE Spec2Model ----
(***************************************************************************)
(* Chunk planning and transcription orchestration of transcribe-summarize. *)
(*                                                                         *)
(* Times are counted in ticks of half a second, so that the 0.5 s buffer   *)
(* the planner adds is one tick and every threshold of the code (600 s,    *)
(* max_duration + overlap) falls on a tick.                                *)
(***************************************************************************)
EXTENDS Integers, Sequences, FiniteSets, TLC

\* ---- program constants (in ticks of 0.5 s) ----
ShortLimit == 1200
DefaultMaxDuration == 1200
DefaultOverlap == 20
Buffer == 1
MinKeyLength == 40

\* ---- bounds of the model ----
MaxDuration == 5000
MaxChunks == 70

VARIABLES
    variant,          \* which copy of transcribe_audio runs
    inputKind,        \* what input_path names: a URL, a local file, nothing
    pc,               \* position of the running transcribe_audio call
    err,              \* the step whose exception ended the call, or "none"
    duration,         \* what the duration probe reports for the input
    max_duration,     \* get_audio_chunks parameter
    overlap,          \* get_audio_chunks parameter / local
    start,            \* get_audio_chunks local
    chunks,           \* get_audio_chunks local, then transcribe_audio local
    idx,              \* transcribe_audio: number of the chunk of the for loop
    transcript_parts, \* transcribe_audio local
    temp_paths,       \* transcribe_audio local
    temp_chunk_path,  \* transcribe_audio local
    files,            \* temporary files on disk
    result,           \* what transcribe_audio returned
    mpc,              \* position of main
    outputs,          \* files written under output/
    probes,           \* history: number of duration probes run
    extracted,        \* history: chunks handed to extract_audio_chunk
    submitted,        \* history: chunks sent to the transcription API
    responses,        \* history: what the transcription API answered
    analysisCalls,    \* history: number of text-generation calls
    analysisInput,    \* history: the transcripts sent to text generation
    jobType,          \* web job: "file" or "url"; "none" on the command line
    status,           \* web job: the status field of the job
    progress,         \* web job: the progress field of the job
    stages,           \* history: the progress updates of the job, in order
    jobError,         \* web job: the error message of a failed job
    jobResult,        \* what process_file / process_url returned
    emailEnabled,     \* settings['send_email'] / main's --email
    emailResult,      \* what the e-mail step answered
    upc,              \* URL jobs: position of each job's thread
    audioDir,         \* URL jobs: ctime of each file of audio/, 0 if absent
    clock,            \* URL jobs: the file system's clock
    downloaded_file,  \* URL jobs: process_url local of each thread
    transcribed,      \* history: the file each URL job transcribed
    removed,          \* history: the file each URL job's cleanup removed
    epc,              \* e-mail monitor: position of main and process_emails
    cycle,            \* e-mail monitor: number of polling cycles begun
    unseen,           \* the messages of the folder without the \Seen flag
    msgKind,          \* what each message carries: a link or an attachment
    implicitSeen,     \* whether the server sets \Seen when a body is fetched
    message_ids,      \* process_emails local: the messages still to handle
    failed,           \* history: messages whose processing has failed
    retried,          \* history: messages transcribed again after a failure
    ppc,              \* format_summary_prompt: position of the call
    length,           \* format_summary_prompt parameter
    transcript,       \* format_summary_prompt parameter, word by word
    prompt,           \* what format_summary_prompt returned
    kpc,              \* load_api_key: the source the call has come to
    environ,          \* os.environ.get("OPENAI_API_KEY")
    dotenvFile,       \* the file .env of the current directory
    homeKeyFile,      \* the file ~/.openai/api_key
    cwdKeyFile,       \* the file ./api_key
    key,              \* what load_api_key returned
    jobs,             \* web app: the status of each job id, "absent" if not in the dictionary
    threads,          \* web app: number of threads started for each job id
    request,          \* web app: the request handled last
    reply,            \* web app: the answer to it
    jobs_dict,        \* process_file / process_url argument: "dict" or "None"
    wpc,              \* GUI: position of the worker thread run_process
    outputLeft,       \* GUI: lines the subprocess has still to print
    log_queue,        \* GUI: self.log_queue
    log_text,         \* GUI: the messages shown in the log widget
    touched,          \* history: the widgets each thread has read or written
    rpc,              \* redirects: position in follow_redirect_chain
    url,              \* redirects: the argument url
    max_redirects,    \* redirects: the argument max_redirects
    current_url,      \* redirects: current_url
    visited_urls,     \* redirects: visited_urls
    response,         \* redirects: what the last request led to
    iteration,        \* history: the iterations of the loop begun so far
    returned,         \* redirects: the value returned
    env_file,         \* settings: the lines of .env, each a sequence of pieces
    os_environ,       \* settings: os.environ
    flash,            \* settings: the message of the last save
    saves             \* history: the number of saves

planVars == <<duration, max_duration, overlap, start, chunks>>
loopVars == <<idx, transcript_parts, temp_paths, temp_chunk_path>>
histVars == <<extracted, submitted, responses, analysisCalls>>
mainVars == <<mpc, outputs>>
jobVars == <<jobType, status, progress, stages, jobError, jobResult>>
mailVars == <<emailEnabled, emailResult>>
callerVars == <<analysisInput, jobVars, mailVars>>
coreVars == <<variant, inputKind, pc, err, planVars, loopVars, files, result,
              mainVars, probes, histVars, callerVars>>
urlVars == <<upc, audioDir, clock, downloaded_file, transcribed, removed>>
monitorVars == <<epc, cycle, unseen, msgKind, implicitSeen, message_ids,
                 failed, retried>>
promptVars == <<ppc, length, transcript, prompt>>
keyVars == <<kpc, environ, dotenvFile, homeKeyFile, cwdKeyFile, key>>
appVars == <<jobs, threads, request, reply>>
dictVars == <<jobs_dict>>
guiVars == <<wpc, outputLeft, log_queue, log_text, touched>>
redirVars == <<rpc, url, max_redirects, current_url, visited_urls,
               response, iteration, returned>>
envVars == <<env_file, os_environ, flash, saves>>
sideVars == <<urlVars, monitorVars, promptVars, keyVars, appVars, dictVars,
              guiVars, redirVars, envVars>>
vars == <<coreVars, sideVars>>

Variants == {"summarize", "financial", "web"}

Min(a, b) == IF a <= b THEN a ELSE b

Chunk(s, l) == [start |-> s, len |-> l]
ChunkEnd(c) == c.start + c.len


NoFile == <<"none", 0>>

\* the file download_file leaves on disk
DownloadFile == <<"download", 0>>
NoResult == <<"no result">>
\* a job whose process_file or process_url has not been left yet
NoJobResult == [kind |-> "none"]
NoStatus == "none"
NoMessage == "none"
Range(seq) == {seq[k] : k \in 1..Len(seq)}

\* the name of the temporary file mkstemp makes for chunk number i
ChunkFile(i) == <<"chunk", i>>

\* the part of transcribe_audio that a try/finally removing temp_paths
\* encloses: all of it in the web service, from get_audio_chunks on in
\* transcribe_financial, none of it in transcribe_summarize
InTryFinally(v, step) ==
    \/ v = "web"
    \/ v = "financial" /\ step \in {"probe", "extract", "transcribe"}

\* for p in temp_paths: if p and os.path.exists(p): os.remove(p)
RemoveTempPaths(fs, tp) == fs \ Range(tp)

\* an exception raised in a step leaves transcribe_audio
Raise(step, fs) ==
    /\ pc' = "raised"
    /\ err' = step
    /\ files' = IF InTryFinally(variant, step)
                THEN RemoveTempPaths(fs, temp_paths)
                ELSE fs

\* the values of the locals and of the history before the call
InitLocals ==
    /\ err = "none"
    /\ start = 0
    /\ chunks = <<>>
    /\ idx = 0
    /\ transcript_parts = <<>>
    /\ temp_paths = <<>>
    /\ temp_chunk_path = NoFile
    /\ files = {}
    /\ result = NoResult
    /\ outputs = {}
    /\ probes = 0
    /\ extracted = <<>>
    /\ submitted = <<>>
    /\ responses = <<>>
    /\ analysisCalls = 0
    /\ analysisInput = <<>>
    /\ progress = NoMessage
    /\ stages = <<>>
    /\ jobError = NoMessage
    /\ jobResult = NoJobResult
    /\ emailResult = NoMessage

\* ---- bounds of the URL jobs ----
NumJobs == 2

Jobs == 1..NumJobs
\* no file: the value of downloaded_file before the download returns
Nothing == 0

\* no URL job has been started and audio/ is empty
UrlIdle ==
    /\ upc = [j \in Jobs |-> "new"]
    /\ audioDir = [j \in Jobs |-> 0]
    /\ clock = 0
    /\ downloaded_file = [j \in Jobs |-> Nothing]
    /\ transcribed = [j \in Jobs |-> Nothing]
    /\ removed = [j \in Jobs |-> Nothing]

\* ---- bounds of the e-mail monitor ----
NumMsgs == 2
MaxCycles == 3

Msgs == 1..NumMsgs

\* the monitor is not running and watches an empty folder
MonitorIdle ==
    /\ epc = "off"
    /\ cycle = 0
    /\ unseen = {}
    /\ msgKind = [m \in Msgs |-> "link"]
    /\ implicitSeen = FALSE
    /\ message_ids = <<>>
    /\ failed = {}
    /\ retried = {}

\* ---- bounds of the prompts ----
MaxWords == 2

NoPrompt == <<>>

\* format_summary_prompt is not being called
PromptIdle ==
    /\ ppc = "off"
    /\ length = "short"
    /\ transcript = <<>>
    /\ prompt = NoPrompt

\* ---- bounds of the key sources ----
MaxLines == 2

\* load_api_key is not being called
KeyIdle ==
    /\ kpc = "off"
    /\ environ = [src |-> 0, prefix |-> "none", len |-> 0]
    /\ dotenvFile = [state |-> "absent", lines |-> <<>>]
    /\ homeKeyFile = [state |-> "absent", key |-> environ]
    /\ cwdKeyFile = [state |-> "absent", key |-> environ]
    /\ key = environ

\* ---- bounds of the web application ----
MaxJobIds == 2

JobIds == 1..MaxJobIds
NoRequest == [handler |-> "none"]
NoReply == [code |-> 0]

\* the web application has served nothing and holds no job
AppIdle ==
    /\ jobs = [id \in JobIds |-> "absent"]
    /\ threads = [id \in JobIds |-> 0]
    /\ request = NoRequest
    /\ reply = NoReply

\* process_transcription hands its job dictionary to process_file and
\* process_url
DictIdle == jobs_dict = "dict"

\* ---- bounds of the GUI ----
MaxOutput == 2
MaxQueue == 3

\* the window is open and no file is being processed
GuiIdle ==
    /\ wpc = "idle"
    /\ outputLeft = 0
    /\ log_queue = <<>>
    /\ log_text = <<>>
    /\ touched = {}

\* ---- bounds of the redirect chains ----
MaxUrl == 4
MaxRedirects == 3

\* max_redirects: int = 10
DefaultMaxRedirects == 10

Urls == 0..MaxUrl
NoUrl == MaxUrl + 1

\* follow_redirect_chain is not running
RedirIdle ==
    /\ rpc = "idle"
    /\ url = 0
    /\ max_redirects = 0
    /\ current_url = 0
    /\ visited_urls = {}
    /\ response = "none"
    /\ iteration = 0
    /\ returned = NoUrl

\* ---- bounds of the settings page ----
MaxSaves == 2

\* the keys of the settings dictionary and the names written to .env
SettingKeys ==
    <<"openai_api_key", "sender_email", "sender_password", "output_email">>

EnvName(setting) ==
    CASE setting = "openai_api_key" -> "OPENAI_API_KEY"
      [] setting = "sender_email" -> "SENDER_EMAIL"
      [] setting = "sender_password" -> "SENDER_PASSWORD"
      [] setting = "output_email" -> "OUTPUT_EMAIL"

EnvNames == {EnvName(SettingKeys[i]) : i \in 1..Len(SettingKeys)}

\* no .env file, nothing set, nothing saved
EnvIdle ==
    /\ env_file = <<>>
    /\ os_environ = [n \in EnvNames |-> ""]
    /\ flash = "none"
    /\ saves = 0

SideIdle ==
    /\ UrlIdle
    /\ MonitorIdle
    /\ PromptIdle
    /\ KeyIdle
    /\ AppIdle
    /\ DictIdle
    /\ GuiIdle
    /\ RedirIdle
    /\ EnvIdle

\* ---- get_audio_chunks, piece by piece ----

ShortPlanNoBuffer(d) == <<Chunk(0, d)>>
\* return [(0, duration + 0.5)]
ShortPlan(d) == <<Chunk(0, d + Buffer)>>

ChunkDurationNoBuffer(remaining, m, o) ==
    IF remaining <= m + o THEN remaining ELSE Min(m, remaining)
ChunkDurationLateMerge(remaining, m, o) ==
    IF remaining <= m + 2 * o THEN remaining + Buffer ELSE Min(m, remaining)
ChunkDurationNoMerge(remaining, m, o) ==
    IF remaining <= m THEN remaining + Buffer ELSE Min(m, remaining)
ChunkDurationStrictMerge(remaining, m, o) ==
    IF remaining < m + o THEN remaining + Buffer ELSE Min(m, remaining)
\* chunk_duration = min(max_duration, remaining), replaced by remaining + 0.5
\* when remaining <= max_duration + overlap
ChunkDuration(remaining, m, o) ==
    IF remaining <= m + o THEN remaining + Buffer ELSE Min(m, remaining)

NextStartGap(s, m, o) == s + m + o
NextStartNoOverlap(s, m, o) == s + m
\* start += max_duration - overlap
NextStart(s, m, o) == s + m - o

\* if start + chunk_duration >= duration: break
CoversRest(s, cd, d) == s + cd >= d

\* ---- the duration probe ----

\* get_audio_duration returns the duration of the input
ProbeOk ==
    /\ pc = "probe"
    /\ probes' = probes + 1
    /\ pc' = "plan"
    /\ UNCHANGED <<callerVars, variant, inputKind, err, planVars, loopVars, files, result,
                   mainVars, histVars>>
    /\ UNCHANGED sideVars

ProbeFailFallsBack ==
    /\ pc = "probe"
    /\ probes' = probes + 1
    /\ err' = "probe"
    /\ pc' = "plan"
    /\ UNCHANGED <<callerVars, variant, inputKind, planVars, loopVars, files, result,
                   mainVars, histVars>>
    /\ UNCHANGED sideVars

\* get_audio_duration raises: no Duration line, ffmpeg missing or timed out
ProbeFail ==
    /\ pc = "probe"
    /\ probes' = probes + 1
    /\ Raise("probe", files)
    /\ UNCHANGED <<callerVars, variant, inputKind, planVars, loopVars, result, mainVars,
                   histVars>>
    /\ UNCHANGED sideVars

\* ---- get_audio_chunks after the probe ----

\* if duration <= 600: return [(0, duration + 0.5)]
PlanShort ==
    /\ pc = "plan"
    /\ duration <= ShortLimit
    /\ chunks' = ShortPlan(duration)
    /\ pc' = "planned"
    /\ UNCHANGED <<callerVars, variant, inputKind, err, duration, max_duration, overlap,
                   start, loopVars, files, result, mainVars, probes, histVars>>
    /\ UNCHANGED sideVars

\* chunks = []; start = 0
PlanLong ==
    /\ pc = "plan"
    /\ duration > ShortLimit
    /\ chunks' = <<>>
    /\ start' = 0
    /\ pc' = "loop"
    /\ UNCHANGED <<callerVars, variant, inputKind, err, duration, max_duration, overlap,
                   loopVars, files, result, mainVars, probes, histVars>>
    /\ UNCHANGED sideVars

\* one evaluation of the while condition and, when it holds, of the loop body
PlanLoop ==
    /\ pc = "loop"
    /\ Len(chunks) < MaxChunks
    /\ IF start < duration
       THEN LET remaining == duration - start
                chunk_duration == ChunkDuration(remaining, max_duration, overlap)
            IN /\ chunks' = Append(chunks, Chunk(start, chunk_duration))
               /\ IF CoversRest(start, chunk_duration, duration)
                  THEN pc' = "planned" /\ start' = start
                  ELSE pc' = "loop" /\ start' = NextStart(start, max_duration, overlap)
       ELSE pc' = "planned" /\ UNCHANGED <<chunks, start>>
    /\ UNCHANGED <<callerVars, variant, inputKind, err, duration, max_duration, overlap,
                   loopVars, files, result, mainVars, probes, histVars>>
    /\ UNCHANGED sideVars

PlanNext == ProbeOk \/ ProbeFail \/ PlanShort \/ PlanLong \/ PlanLoop

\* the planner alone, called with its defaults on an input of any duration
PlanInit ==
    /\ variant \in Variants
    /\ inputKind = "file"
    /\ pc = "probe"
    /\ duration \in 0..MaxDuration
    /\ max_duration = DefaultMaxDuration
    /\ overlap = DefaultOverlap
    /\ mpc = "planner"
    /\ jobType = "none"
    /\ status = NoStatus
    /\ emailEnabled = FALSE
    /\ InitLocals
    /\ SideIdle

PlanSpec == PlanInit /\ [][PlanNext]_vars

\* ---- the three copies of get_audio_chunks, each as a function ----

\* the literal of `if duration <= 600` in each copy
ShortLimitOf(v) ==
    CASE v = "summarize" -> ShortLimit
      [] v = "financial" -> 1200
      [] v = "web" -> 1200

\* the default of the max_duration parameter of each copy
MaxDurationOf(v) ==
    CASE v = "summarize" -> DefaultMaxDuration
      [] v = "financial" -> 1200
      [] v = "web" -> 1200

OverlapOfWebWithoutOverlap(v) ==
    CASE v = "summarize" -> DefaultOverlap
      [] v = "financial" -> 20
      [] v = "web" -> 0
\* the default of the overlap parameter in chunked_audio, the local
\* `overlap = 10` in the other two copies
OverlapOf(v) ==
    CASE v = "summarize" -> DefaultOverlap
      [] v = "financial" -> 20
      [] v = "web" -> 20

\* the while loop of copy v from the pass that begins at s
RECURSIVE PlanFrom(_, _, _, _)
PlanFrom(v, s, d, acc) ==
    IF s < d
    THEN LET cd == ChunkDuration(d - s, MaxDurationOf(v), OverlapOf(v))
             more == Append(acc, Chunk(s, cd))
         IN IF CoversRest(s, cd, d)
            THEN more
            ELSE PlanFrom(v, NextStart(s, MaxDurationOf(v), OverlapOf(v)),
                          d, more)
    ELSE acc

\* what copy v returns for a probed duration d
PlanOf(v, d) ==
    IF d <= ShortLimitOf(v) THEN ShortPlan(d) ELSE PlanFrom(v, 0, d, <<>>)

\* the values of max_duration and overlap a caller may pass
CallerMaxDurations == {20, 600, DefaultMaxDuration}
CallerOverlaps == {0, DefaultOverlap, 600}
CallerDurations == {1200, 1201, 1221, 1300}

\* the planner called with arguments of the caller's choice: overlap is a
\* parameter in chunked_audio and a local set to 10 in the other two copies
PlanAnyInit ==
    /\ variant \in Variants
    /\ inputKind = "file"
    /\ pc = "probe"
    /\ duration \in CallerDurations
    /\ max_duration \in CallerMaxDurations
    /\ overlap \in (IF variant = "summarize" THEN CallerOverlaps
                                             ELSE {DefaultOverlap})
    /\ mpc = "planner"
    /\ jobType = "none"
    /\ status = NoStatus
    /\ emailEnabled = FALSE
    /\ InitLocals
    /\ SideIdle

PlanAnySpec == PlanAnyInit /\ [][PlanNext]_vars


\* ---- the transcription API's answers and the transcript ----

Texts == {<<>>, <<"a">>, <<"b">>}
Sep == <<"\n", "\n">>
Repr == <<"repr">>

\* transcribe_summarize: resp.text or resp.transcript or str(resp);
\* the other copies: transcript.text
TextOf(v, t) == IF v = "summarize" /\ t = <<>> THEN Repr ELSE t

RECURSIVE JoinReversed(_, _)
JoinReversed(parts, sep) ==
    IF parts = <<>> THEN <<>>
    ELSE IF Len(parts) = 1 THEN parts[1]
    ELSE JoinReversed(Tail(parts), sep) \o sep \o Head(parts)
\* sep.join(parts)
RECURSIVE Join(_, _)
Join(parts, sep) ==
    IF parts = <<>> THEN <<>>
    ELSE IF Len(parts) = 1 THEN parts[1]
    ELSE Head(parts) \o sep \o Join(Tail(parts), sep)

\* ---- transcribe_audio up to the plan ----

\* download_file(input_path) succeeds; temp_paths.append(input_path)
Download ==
    /\ pc = "start"
    /\ inputKind = "url"
    /\ files' = files \cup {DownloadFile}
    /\ temp_paths' = Append(temp_paths, DownloadFile)
    /\ pc' = "exists"
    /\ UNCHANGED <<callerVars, variant, inputKind, err, planVars, idx, transcript_parts,
                   temp_chunk_path, result, mainVars, probes, histVars>>
    /\ UNCHANGED sideVars

\* download_file raises
DownloadFail ==
    /\ pc = "start"
    /\ inputKind = "url"
    /\ Raise("download", files)
    /\ UNCHANGED <<callerVars, variant, inputKind, planVars, loopVars, result, mainVars,
                   probes, histVars>>
    /\ UNCHANGED sideVars

\* input_path is not a URL; the web service, which is handed a path, begins
\* with update_progress("Starting transcription...")
NoDownload ==
    /\ pc = "start"
    /\ inputKind # "url"
    /\ pc' = "exists"
    /\ progress' = IF variant = "web" THEN "starting" ELSE progress
    /\ UNCHANGED <<analysisInput, jobType, status, stages, jobError, jobResult,
                   mailVars, variant, inputKind, err, planVars, loopVars,
                   files, result, mainVars, probes, histVars>>
    /\ UNCHANGED sideVars

\* if not os.path.exists(input_path): raise FileNotFoundError
CheckExists ==
    /\ pc = "exists"
    /\ IF inputKind = "missing"
       THEN Raise("input", files)
       ELSE pc' = "apikey" /\ UNCHANGED <<err, files>>
    /\ UNCHANGED <<callerVars, variant, inputKind, planVars, loopVars, result, mainVars,
                   probes, histVars>>
    /\ UNCHANGED sideVars

\* load_api_key() finds a key
LoadKey ==
    /\ pc = "apikey"
    /\ pc' = IF variant = "summarize" THEN "probe" ELSE "apitest"
    /\ UNCHANGED <<callerVars, variant, inputKind, err, planVars, loopVars, files, result,
                   mainVars, probes, histVars>>
    /\ UNCHANGED sideVars

\* load_api_key() finds none: EnvironmentError
LoadKeyFail ==
    /\ pc = "apikey"
    /\ Raise("apikey", files)
    /\ UNCHANGED <<callerVars, variant, inputKind, planVars, loopVars, result, mainVars,
                   probes, histVars>>
    /\ UNCHANGED sideVars

\* client.models.list() answers
ApiTest ==
    /\ pc = "apitest"
    /\ pc' = "probe"
    /\ UNCHANGED <<callerVars, variant, inputKind, err, planVars, loopVars, files, result,
                   mainVars, probes, histVars>>
    /\ UNCHANGED sideVars

\* client.models.list() raises: RuntimeError
ApiTestFail ==
    /\ pc = "apitest"
    /\ Raise("apitest", files)
    /\ UNCHANGED <<callerVars, variant, inputKind, planVars, loopVars, result, mainVars,
                   probes, histVars>>
    /\ UNCHANGED sideVars

\* ---- transcribe_audio: the loop over the chunks ----

\* for i, (start, chunk_duration) in enumerate(chunks): the next chunk (the
\* web service reports "Processing chunk i/n..."), or after the last one
\* the removal of the temporary files and the return of the joined parts
ForChunk ==
    /\ pc = "planned"
    /\ IF idx < Len(chunks)
       THEN /\ idx' = idx + 1
            /\ pc' = "extract"
            /\ progress' = IF variant = "web" THEN "chunk" ELSE progress
            /\ UNCHANGED <<files, result>>
       ELSE /\ files' = RemoveTempPaths(files, temp_paths)
            /\ result' = Join(transcript_parts, Sep)
            /\ pc' = "returned"
            /\ idx' = idx
            /\ progress' = progress
    /\ UNCHANGED <<analysisInput, jobType, status, stages, jobError, jobResult,
                   mailVars, variant, inputKind, err, planVars,
                   transcript_parts, temp_paths, temp_chunk_path, mainVars,
                   probes, histVars>>
    /\ UNCHANGED sideVars

ExtractWithoutWaiting ==
    /\ pc = "extract"
    /\ extracted' = Append(extracted, idx)
    /\ files' = files \cup {ChunkFile(idx)}
    /\ temp_chunk_path' = ChunkFile(idx)
    /\ temp_paths' = Append(temp_paths, ChunkFile(idx))
    /\ pc' = IF idx < Len(chunks) THEN "planned" ELSE "upload"
    /\ UNCHANGED <<callerVars, variant, inputKind, err, planVars, idx, transcript_parts,
                   result, mainVars, probes, submitted, responses,
                   analysisCalls>>
    /\ UNCHANGED sideVars

\* extract_audio_chunk returns the path of the chunk's temporary file
Extract ==
    /\ pc = "extract"
    /\ extracted' = Append(extracted, idx)
    /\ files' = files \cup {ChunkFile(idx)}
    /\ temp_chunk_path' = ChunkFile(idx)
    /\ temp_paths' = Append(temp_paths, ChunkFile(idx))
    /\ pc' = "upload"
    /\ UNCHANGED <<callerVars, variant, inputKind, err, planVars, idx, transcript_parts,
                   result, mainVars, probes, submitted, responses,
                   analysisCalls>>
    /\ UNCHANGED sideVars

\* what extract_audio_chunk can raise on: ffmpeg exits non-zero, ffmpeg
\* times out (where a timeout is set), the output file is missing or empty
ExtractFailures(v) ==
    IF v = "summarize" THEN {"failed", "missing"}
    ELSE {"failed", "timeout", "empty"}

\* the failures after which the file made by mkstemp is still on disk
ExtractLeavesFile(v, how) ==
    \/ v = "summarize" /\ how = "failed"
    \/ v # "summarize" /\ how = "empty"

\* extract_audio_chunk raises
ExtractFail ==
    /\ pc = "extract"
    /\ extracted' = Append(extracted, idx)
    /\ \E how \in ExtractFailures(variant) :
          Raise("extract", IF ExtractLeavesFile(variant, how)
                           THEN files \cup {ChunkFile(idx)}
                           ELSE files)
    /\ UNCHANGED <<callerVars, variant, inputKind, planVars, loopVars, result, mainVars,
                   probes, submitted, responses, analysisCalls>>
    /\ UNCHANGED sideVars

\* the transcription call answers; transcript_parts.append(text); the
\* chunk's temporary file is removed
Transcribe ==
    /\ pc = "upload"
    /\ submitted' = Append(submitted, idx)
    /\ \E t \in Texts :
          /\ responses' = Append(responses, [chunk |-> idx, text |-> t])
          /\ transcript_parts' = Append(transcript_parts, TextOf(variant, t))
    /\ files' = files \ {temp_chunk_path}
    /\ pc' = "planned"
    /\ UNCHANGED <<callerVars, variant, inputKind, err, planVars, idx, temp_paths,
                   temp_chunk_path, result, mainVars, probes, extracted,
                   analysisCalls>>
    /\ UNCHANGED sideVars

TranscribeFailSkipsChunk ==
    /\ pc = "upload"
    /\ submitted' = Append(submitted, idx)
    /\ err' = "transcribe"
    /\ files' = files \ {temp_chunk_path}
    /\ pc' = "planned"
    /\ UNCHANGED <<callerVars, variant, inputKind, planVars, loopVars, result, mainVars,
                   probes, extracted, responses, analysisCalls>>
    /\ UNCHANGED sideVars

\* the transcription call (or opening the chunk file) raises
TranscribeFail ==
    /\ pc = "upload"
    /\ submitted' = Append(submitted, idx)
    /\ Raise("transcribe", IF variant = "summarize"
                           THEN files \ {temp_chunk_path}
                           ELSE files)
    /\ UNCHANGED <<callerVars, variant, inputKind, planVars, loopVars, result, mainVars,
                   probes, extracted, responses, analysisCalls>>
    /\ UNCHANGED sideVars

\* ---- main of the two command line tools ----

IsCli == variant \in {"summarize", "financial"}

\* an exception in main: transcribe_financial prints it and exits with 1,
\* transcribe_summarize lets it end the process
MainAbort == IF variant = "financial" THEN "exit1" ELSE "crashed"

MainTranscribeRaisedSavesPartial ==
    /\ IsCli
    /\ mpc = "transcribe"
    /\ pc = "raised"
    /\ mpc' = MainAbort
    /\ outputs' = IF transcript_parts # <<>> THEN {"transcript"} ELSE {}
    /\ UNCHANGED <<callerVars, variant, inputKind, pc, err, planVars, loopVars, files,
                   result, probes, histVars>>
    /\ UNCHANGED sideVars

\* transcribe_audio raised
MainTranscribeRaised ==
    /\ IsCli
    /\ mpc = "transcribe"
    /\ pc = "raised"
    /\ mpc' = MainAbort
    /\ UNCHANGED <<callerVars, variant, inputKind, pc, err, planVars, loopVars, files,
                   result, outputs, probes, histVars>>
    /\ UNCHANGED sideVars

\* summarize_text / create_financial_summary returns
MainAnalyse ==
    /\ IsCli
    /\ mpc = "transcribe"
    /\ pc = "returned"
    /\ analysisCalls' = analysisCalls + 1
    /\ mpc' = "write"
    /\ analysisInput' = Append(analysisInput, result)
    /\ UNCHANGED <<jobVars, mailVars, variant, inputKind, pc, err, planVars,
                   loopVars, files, result, outputs, probes, extracted,
                   submitted, responses>>
    /\ UNCHANGED sideVars

MainAnalyseFailRetries ==
    /\ IsCli
    /\ mpc = "transcribe"
    /\ pc = "returned"
    /\ analysisCalls < 2
    /\ analysisCalls' = analysisCalls + 1
    /\ mpc' = "transcribe"
    /\ analysisInput' = Append(analysisInput, result)
    /\ UNCHANGED <<jobVars, mailVars, variant, inputKind, pc, err, planVars,
                   loopVars, files, result, outputs, probes, extracted,
                   submitted, responses>>
    /\ UNCHANGED sideVars

\* summarize_text / create_financial_summary raises
MainAnalyseFail ==
    /\ IsCli
    /\ mpc = "transcribe"
    /\ pc = "returned"
    /\ analysisCalls' = analysisCalls + 1
    /\ mpc' = MainAbort
    /\ analysisInput' = Append(analysisInput, result)
    /\ UNCHANGED <<jobVars, mailVars, variant, inputKind, pc, err, planVars,
                   loopVars, files, result, outputs, probes, extracted,
                   submitted, responses>>
    /\ UNCHANGED sideVars

\* the files main writes under output/: transcript and summary, or the
\* combined analysis and, when create_pdf_report succeeds, its PDF
MainWrite ==
    /\ IsCli
    /\ mpc = "write"
    /\ \E pdf \in BOOLEAN :
          outputs' = IF variant = "summarize"
                     THEN {"transcript", "summary"}
                     ELSE {"analysis"} \cup (IF pdf THEN {"pdf"} ELSE {})
    /\ mpc' = IF variant = "financial" /\ emailEnabled THEN "email" ELSE "done"
    /\ UNCHANGED <<callerVars, variant, inputKind, pc, err, planVars, loopVars, files,
                   result, probes, histVars>>
    /\ UNCHANGED sideVars

\* if args.email: send_email_summary(...), which answers True, or False
\* when the credentials are missing or SMTP raises
MainEmail ==
    /\ IsCli
    /\ mpc = "email"
    /\ \E ok \in BOOLEAN : emailResult' = IF ok THEN "sent" ELSE "failed"
    /\ mpc' = "done"
    /\ UNCHANGED <<analysisInput, jobVars, emailEnabled, variant, inputKind, pc,
                   err, planVars, loopVars, files, result, outputs, probes,
                   histVars>>
    /\ UNCHANGED sideVars

\* ---- the web service: process_url and process_file around transcribe_audio ----

IsWeb == variant = "web"

Analysis == <<"report">>

\* what process_file / process_url hand back: a result dict or an exception
Returned(t, a, e) ==
    [kind |-> "result", transcript |-> t, analysis |-> a, email_result |-> e]
Raised(step) == [kind |-> "raised", error |-> step]

\* update_progress(job_id, progress, jobs_dict)
UpdateProgress(stage) ==
    /\ progress' = stage
    /\ stages' = Append(stages, stage)

\* if jobs_dict and job_id: self.update_progress(...)
GuardedProgress(stage) ==
    IF jobs_dict = "dict" THEN UpdateProgress(stage)
                          ELSE UNCHANGED <<progress, stages>>

\* the finally of process_url: the downloaded file is removed
RemoveDownloaded(fs) == IF jobType = "url" THEN fs \ {DownloadFile} ELSE fs

\* the thread of the job starts process_transcription: the job is processing
\* and the input is handed to process_url or process_file
WebStart ==
    /\ IsWeb
    /\ mpc = "created"
    /\ status' = "processing"
    /\ mpc' = IF jobType = "url" THEN "download" ELSE "process_file"
    /\ UNCHANGED <<analysisInput, jobType, progress, stages, jobError, jobResult,
                   mailVars, variant, inputKind, pc, err, planVars, loopVars,
                   files, result, outputs, probes, histVars>>
    /\ UNCHANGED sideVars

\* download_from_url returns the newest audio/downloaded_*.mp3
WebDownload ==
    /\ IsWeb
    /\ mpc = "download"
    /\ GuardedProgress("downloading")
    /\ files' = files \cup {DownloadFile}
    /\ mpc' = "process_file"
    /\ UNCHANGED <<analysisInput, jobType, status, jobError, jobResult,
                   mailVars, variant, inputKind, pc, err, planVars, loopVars,
                   result, outputs, probes, histVars>>
    /\ UNCHANGED sideVars

\* download_from_url raises (yt-dlp fails, times out, leaves no .mp3);
\* process_url raises RuntimeError
WebDownloadFail ==
    /\ IsWeb
    /\ mpc = "download"
    /\ GuardedProgress("downloading")
    /\ jobResult' = Raised("download")
    /\ mpc' = "left"
    /\ UNCHANGED <<analysisInput, jobType, status, jobError, mailVars, variant,
                   inputKind, pc, err, planVars, loopVars, files, result,
                   outputs, probes, histVars>>
    /\ UNCHANGED sideVars

\* process_file: update_progress("Transcribing audio..."), then the call of
\* transcribe_audio
WebTranscribeStart ==
    /\ IsWeb
    /\ mpc = "process_file"
    /\ jobs_dict = "dict"
    /\ UpdateProgress("transcribing")
    /\ pc' = "start"
    /\ mpc' = "transcribe"
    /\ UNCHANGED <<analysisInput, jobType, status, jobError, jobResult,
                   mailVars, variant, inputKind, err, planVars, loopVars,
                   files, result, outputs, probes, histVars>>
    /\ UNCHANGED sideVars

\* process_file without a job dictionary: update_progress evaluates
\* `job_id in None`, the TypeError is caught by process_file's except and
\* raised again as RuntimeError; process_url removes the downloaded file
WebProgressRaises ==
    /\ IsWeb
    /\ mpc = "process_file"
    /\ jobs_dict = "None"
    /\ jobResult' = Raised("progress")
    /\ files' = RemoveDownloaded(files)
    /\ mpc' = "left"
    /\ UNCHANGED <<analysisInput, jobType, status, progress, stages, jobError,
                   mailVars, variant, inputKind, pc, err, planVars, loopVars,
                   result, outputs, probes, histVars>>
    /\ UNCHANGED sideVars

\* transcribe_audio raised: process_file raises RuntimeError, process_url
\* removes the downloaded file and raises RuntimeError
WebTranscribeRaised ==
    /\ IsWeb
    /\ mpc = "transcribe"
    /\ pc = "raised"
    /\ jobResult' = Raised(err)
    /\ files' = RemoveDownloaded(files)
    /\ mpc' = "left"
    /\ UNCHANGED <<analysisInput, jobType, status, progress, stages, jobError,
                   mailVars, variant, inputKind, pc, err, planVars, loopVars,
                   result, outputs, probes, histVars>>
    /\ UNCHANGED sideVars

\* update_progress("Creating financial analysis..."), and
\* create_financial_summary(transcript) returns
WebAnalyse ==
    /\ IsWeb
    /\ mpc = "transcribe"
    /\ pc = "returned"
    /\ UpdateProgress("analyzing")
    /\ analysisCalls' = analysisCalls + 1
    /\ analysisInput' = Append(analysisInput, result)
    /\ mpc' = "email"
    /\ UNCHANGED <<jobType, status, jobError, jobResult, mailVars, variant,
                   inputKind, pc, err, planVars, loopVars, files, result,
                   outputs, probes, extracted, submitted, responses>>
    /\ UNCHANGED sideVars

WebAnalyseFailGoesOn ==
    /\ IsWeb
    /\ mpc = "transcribe"
    /\ pc = "returned"
    /\ UpdateProgress("analyzing")
    /\ analysisCalls' = analysisCalls + 1
    /\ analysisInput' = Append(analysisInput, result)
    /\ jobResult' = Raised("analysis")
    /\ files' = files
    /\ mpc' = "email"
    /\ UNCHANGED <<jobType, status, jobError, mailVars, variant, inputKind, pc,
                   err, planVars, loopVars, result, outputs, probes, extracted,
                   submitted, responses>>
    /\ UNCHANGED sideVars

\* create_financial_summary raises: process_file and process_url raise
WebAnalyseFail ==
    /\ IsWeb
    /\ mpc = "transcribe"
    /\ pc = "returned"
    /\ UpdateProgress("analyzing")
    /\ analysisCalls' = analysisCalls + 1
    /\ analysisInput' = Append(analysisInput, result)
    /\ jobResult' = Raised("analysis")
    /\ files' = RemoveDownloaded(files)
    /\ mpc' = "left"
    /\ UNCHANGED <<jobType, status, jobError, mailVars, variant, inputKind, pc,
                   err, planVars, loopVars, result, outputs, probes, extracted,
                   submitted, responses>>
    /\ UNCHANGED sideVars

WebEmailRaises ==
    /\ IsWeb
    /\ mpc = "email"
    /\ emailEnabled
    /\ UpdateProgress("emailing")
    /\ \E ok \in BOOLEAN :
          /\ emailResult' = IF ok THEN "sent" ELSE "failed"
          /\ jobResult' = IF ok THEN Returned(result, Analysis, "sent")
                          ELSE Raised("email")
    /\ files' = RemoveDownloaded(files)
    /\ mpc' = "left"
    /\ UNCHANGED <<analysisInput, jobType, status, jobError, emailEnabled,
                   variant, inputKind, pc, err, planVars, loopVars, result,
                   outputs, probes, histVars>>
    /\ UNCHANGED sideVars

\* settings['send_email']: update_progress("Sending email report..."),
\* send_email_report answers success True or False and never raises; the
\* result dict is returned
WebEmail ==
    /\ IsWeb
    /\ mpc = "email"
    /\ emailEnabled
    /\ UpdateProgress("emailing")
    /\ \E ok \in BOOLEAN :
          /\ emailResult' = IF ok THEN "sent" ELSE "failed"
          /\ jobResult' = Returned(result, Analysis, emailResult')
    /\ files' = RemoveDownloaded(files)
    /\ mpc' = "left"
    /\ UNCHANGED <<analysisInput, jobType, status, jobError, emailEnabled,
                   variant, inputKind, pc, err, planVars, loopVars, result,
                   outputs, probes, histVars>>
    /\ UNCHANGED sideVars

WebNoEmailReportsEmailing ==
    /\ IsWeb
    /\ mpc = "email"
    /\ ~emailEnabled
    /\ UpdateProgress("emailing")
    /\ jobResult' = Returned(result, Analysis, NoMessage)
    /\ files' = RemoveDownloaded(files)
    /\ mpc' = "left"
    /\ UNCHANGED <<analysisInput, jobType, status, jobError,
                   mailVars, variant, inputKind, pc, err, planVars, loopVars,
                   result, outputs, probes, histVars>>
    /\ UNCHANGED sideVars

\* send_email is off: email_result is None and the result dict is returned
WebNoEmail ==
    /\ IsWeb
    /\ mpc = "email"
    /\ ~emailEnabled
    /\ jobResult' = Returned(result, Analysis, NoMessage)
    /\ files' = RemoveDownloaded(files)
    /\ mpc' = "left"
    /\ UNCHANGED <<analysisInput, jobType, status, progress, stages, jobError,
                   mailVars, variant, inputKind, pc, err, planVars, loopVars,
                   result, outputs, probes, histVars>>
    /\ UNCHANGED sideVars

\* process_transcription after the call: the job is completed with its
\* results, or failed with the message of the exception
JobFinished ==
    /\ IsWeb
    /\ mpc = "left"
    /\ IF jobResult.kind = "result"
       THEN status' = "completed" /\ UNCHANGED jobError
       ELSE status' = "failed" /\ jobError' = jobResult.error
    /\ mpc' = "ended"
    /\ UNCHANGED <<analysisInput, jobType, progress, stages, jobResult,
                   mailVars, variant, inputKind, pc, err, planVars, loopVars,
                   files, result, outputs, probes, histVars>>
    /\ UNCHANGED sideVars

WebNext ==
    \/ WebStart \/ WebDownload \/ WebDownloadFail \/ WebTranscribeStart
    \/ WebTranscribeRaised \/ WebAnalyse \/ WebAnalyseFail
    \/ WebEmail \/ WebNoEmail \/ JobFinished

JobNext ==
    \/ Download \/ DownloadFail \/ NoDownload \/ CheckExists
    \/ LoadKey \/ LoadKeyFail \/ ApiTest \/ ApiTestFail
    \/ ForChunk \/ Extract \/ ExtractFail \/ Transcribe \/ TranscribeFail
    \/ MainTranscribeRaised \/ MainAnalyse \/ MainAnalyseFail \/ MainWrite
    \/ MainEmail

Next == PlanNext \/ JobNext \/ WebNext

\* the durations of the inputs of the jobs: 0 s, 600 s, 610 s, 610.5 s, 1250 s
JobDurations == {0, 1200, 1220, 1221, 2500}

InputKinds(v) == IF v = "web" THEN {"file", "missing"}
                 ELSE {"url", "file", "missing"}

\* a web job is an uploaded file or a URL; the file process_url hands to
\* process_file is the one download_from_url just returned
JobTypes(v, kind) ==
    IF v # "web" THEN {"none"}
    ELSE IF kind = "file" THEN {"file", "url"} ELSE {"file"}

\* a command line call begins in transcribe_audio; a web job has just been
\* created by /upload or /process_url and its thread is about to run
Init ==
    /\ variant \in Variants
    /\ inputKind \in InputKinds(variant)
    /\ jobType \in JobTypes(variant, inputKind)
    /\ pc = IF variant = "web" THEN "idle" ELSE "start"
    /\ duration \in JobDurations
    /\ max_duration = DefaultMaxDuration
    /\ overlap = DefaultOverlap
    /\ mpc = IF variant = "web" THEN "created" ELSE "transcribe"
    /\ status = IF variant = "web" THEN "created" ELSE NoStatus
    /\ emailEnabled \in (IF variant = "summarize" THEN {FALSE} ELSE BOOLEAN)
    /\ InitLocals
    /\ SideIdle

Spec == Init /\ [][Next]_vars

\* process_file or process_url called by itself, with or without a job
\* dictionary
DirectInit ==
    /\ variant = "web"
    /\ inputKind \in InputKinds(variant)
    /\ jobType \in JobTypes(variant, inputKind)
    /\ pc = "idle"
    /\ duration \in JobDurations
    /\ max_duration = DefaultMaxDuration
    /\ overlap = DefaultOverlap
    /\ mpc = IF jobType = "url" THEN "download" ELSE "process_file"
    /\ status = NoStatus
    /\ emailEnabled \in BOOLEAN
    /\ InitLocals
    /\ UrlIdle
    /\ MonitorIdle
    /\ PromptIdle
    /\ KeyIdle
    /\ AppIdle
    /\ GuiIdle
    /\ RedirIdle
    /\ EnvIdle
    /\ jobs_dict \in {"dict", "None"}

DirectNext ==
    \/ PlanNext
    \/ NoDownload \/ CheckExists \/ LoadKey \/ LoadKeyFail \/ ApiTest
    \/ ApiTestFail \/ ForChunk \/ Extract \/ ExtractFail \/ Transcribe
    \/ TranscribeFail
    \/ WebDownload \/ WebDownloadFail \/ WebTranscribeStart
    \/ WebProgressRaises \/ WebTranscribeRaised \/ WebAnalyse
    \/ WebAnalyseFail \/ WebEmail \/ WebNoEmail

DirectSpec == DirectInit /\ [][DirectNext]_vars

\* ---- properties of the plan ----

Planned == pc = "planned"
Last(seq) == seq[Len(seq)]

\* C1: with the default max_duration of 600 s, every duration from 0 to
\* 600 s is planned as exactly one chunk that starts at 0 and is
\* duration + 0.5 s long.
C1_ShortFileIsOneChunk ==
    (Planned /\ max_duration = 1200 /\ duration >= 0 /\ duration <= 1200)
        => chunks = <<[start |-> 0, len |-> duration + 1]>>

C1_Witness == Planned /\ duration = 1200 /\ Len(chunks) = 1

\* C2: for every duration > 0 the plan covers [0, duration] without a gap:
\* the first chunk starts at 0, every later chunk starts no later than the
\* end of the chunk before it, and the last chunk ends at or after duration.
C2_CoversWithoutGap ==
    (Planned /\ duration > 0) =>
        /\ Len(chunks) >= 1
        /\ chunks[1].start = 0
        /\ \A i \in 2..Len(chunks) : chunks[i].start <= ChunkEnd(chunks[i - 1])
        /\ ChunkEnd(Last(chunks)) >= duration

C2_Witness == Planned /\ duration = 2500 /\ Len(chunks) = 3

\* C3: in a plan of two or more chunks every consecutive pair overlaps by
\* exactly overlap seconds, the pair of the last two chunks included.
C3_OverlapIsExact ==
    (Planned /\ Len(chunks) >= 2) =>
        \A i \in 1..(Len(chunks) - 1) :
            ChunkEnd(chunks[i]) - chunks[i + 1].start = overlap

C3_Witness ==
    /\ Planned
    /\ Len(chunks) = 2
    /\ ChunkEnd(chunks[1]) - chunks[2].start = 20

\* C4: only the final chunk extends past the duration: it ends exactly at
\* duration + 0.5 s, and every chunk before it ends at or before duration.
C4_OnlyLastChunkPastEnd ==
    Planned =>
        /\ Len(chunks) >= 1
        /\ ChunkEnd(Last(chunks)) = duration + 1
        /\ \A i \in 1..(Len(chunks) - 1) : ChunkEnd(chunks[i]) <= duration

C4_Witness ==
    /\ Planned
    /\ Len(chunks) = 4
    /\ ChunkEnd(chunks[4]) = duration + 1
    /\ ChunkEnd(chunks[3]) <= duration

\* C5 as stated: every chunk of every plan is at most 600 s long.
C5_Original ==
    Planned => \A i \in 1..Len(chunks) : chunks[i].len <= 1200

\* C5 amended: every chunk before the last is at most 600 s long, and the
\* last chunk is at most max_duration + overlap + 0.5 s = 610.5 s long.
C5_ChunkLengthBound ==
    Planned =>
        /\ \A i \in 1..(Len(chunks) - 1) : chunks[i].len <= 1200
        /\ \A i \in 1..Len(chunks) : chunks[i].len <= 1200 + 20 + 1

C5_Witness ==
    /\ Planned
    /\ Len(chunks) >= 2
    /\ Last(chunks).len = 1221
    /\ chunks[1].len = 1200

\* C6: a chunk that starts with at most max_duration + overlap of audio
\* remaining takes all of it (remaining + 0.5 s) and is the last chunk, so
\* the last chunk of a plan of two or more chunks is longer than 2 * overlap.
C6_NoTinyTrailingChunk ==
    /\ (pc \in {"loop", "planned"}) =>
          \A i \in 1..Len(chunks) :
              (duration - chunks[i].start <= max_duration + overlap) =>
                  /\ i = Len(chunks)
                  /\ chunks[i].len = duration - chunks[i].start + 1
                  /\ Planned
    /\ (Planned /\ Len(chunks) >= 2) => Last(chunks).len > 2 * overlap

C6_Witness ==
    /\ Planned
    /\ Len(chunks) >= 2
    /\ duration - Last(chunks).start = 2 * overlap + 1
    /\ Last(chunks).len = 2 * overlap + 2

\* ---- properties of transcribe_audio and main ----

UpTo(n) == [k \in 1..n |-> k]

\* C7: when the duration probe fails, transcribe_audio raises: the probe
\* ran once, no chunk was extracted or submitted, and no transcript is
\* returned, then or later.
C7_ProbeFailureAborts ==
    (err = "probe") =>
        /\ pc = "raised"
        /\ probes = 1
        /\ extracted = <<>>
        /\ submitted = <<>>
        /\ result = NoResult

C7_Witness ==
    /\ err = "probe"
    /\ pc = "raised"
    /\ mpc \in {"exit1", "crashed", "ended"}
    /\ probes = 1

\* the text transcribe_audio keeps for an answer of the transcription API
KeptText(r) == IF variant = "summarize" /\ r.text = <<>> THEN Repr ELSE r.text

RECURSIVE FirstTexts(_)
FirstTexts(n) ==
    IF n = 0 THEN <<>>
    ELSE IF n = 1 THEN KeptText(responses[1])
    ELSE FirstTexts(n - 1) \o Sep \o KeptText(responses[n])

\* C8: the transcript transcribe_audio returns is the texts of the chunks
\* in plan order, separated by a blank line, one text for each planned
\* chunk, none missing and none twice.
C8_TranscriptInPlanOrder ==
    (pc = "returned") =>
        /\ Len(transcript_parts) = Len(chunks)
        /\ Len(responses) = Len(chunks)
        /\ \A i \in 1..Len(chunks) : responses[i].chunk = i
        /\ submitted = UpTo(Len(chunks))
        /\ result = FirstTexts(Len(chunks))

C8_Witness ==
    /\ pc = "returned"
    /\ Len(chunks) = 3
    /\ responses[1].text = <<"a">>
    /\ responses[2].text = <<"b">>
    /\ result = <<"a", "\n", "\n", "b", "\n", "\n", "a">>

\* C9: when extracting or transcribing chunk idx fails, transcribe_audio
\* raises and returns no transcript, the failed chunk is not submitted
\* again, and no later chunk is extracted or submitted.
C9_ChunkFailureAborts ==
    (err \in {"extract", "transcribe"}) =>
        /\ pc = "raised"
        /\ result = NoResult
        /\ extracted = UpTo(idx)
        /\ submitted = UpTo(IF err = "extract" THEN idx - 1 ELSE idx)

C9_Witness ==
    /\ err = "transcribe"
    /\ pc = "raised"
    /\ idx = 2
    /\ Len(chunks) = 3
    /\ submitted = <<1, 2>>

\* C10: in the command line tools a failed chunk leaves nothing under
\* output/: files are written only after transcribe_audio has returned
\* the complete transcript.
C10_NoOutputWithoutTranscript ==
    IsCli =>
        /\ (err \in {"extract", "transcribe"}) => outputs = {}
        /\ (outputs # {}) =>
              /\ pc = "returned"
              /\ err = "none"
              /\ Len(transcript_parts) = Len(chunks)
              /\ result # NoResult

C10_Witness ==
    /\ IsCli
    /\ err = "transcribe"
    /\ transcript_parts # <<>>
    /\ mpc \in {"exit1", "crashed"}
    /\ outputs = {}

\* ---- properties of the temporary files, the chunk loop and the analysis ----

IsChunkFile(f) == f[1] = "chunk"

\* C11: when transcribe_audio returns or raises, every temporary file made
\* during the call is gone: the files of the chunks and, for a URL input,
\* the downloaded file.
C11_TempFilesRemoved ==
    (pc \in {"returned", "raised"}) =>
        /\ \A f \in files : ~IsChunkFile(f)
        /\ IsCli => DownloadFile \notin files

\* C12: the chunks of a job are handled one after the other: at most one
\* chunk is extracted and not yet answered, and a chunk is extracted only
\* when the texts of all chunks before it have been collected.
C12_ChunksSequential ==
    /\ Cardinality({f \in files : IsChunkFile(f)}) <= 1
    /\ Len(extracted) - Len(responses) <= 1
    /\ (pc = "extract") =>
          /\ extracted = UpTo(idx - 1)
          /\ submitted = UpTo(idx - 1)
          /\ Len(responses) = idx - 1
          /\ Len(transcript_parts) = idx - 1
    /\ (pc = "upload") =>
          /\ extracted = UpTo(idx)
          /\ submitted = UpTo(idx - 1)
          /\ Len(transcript_parts) = idx - 1

C12_Witness ==
    /\ pc = "upload"
    /\ idx = 2
    /\ extracted = <<1, 2>>
    /\ Len(transcript_parts) = 1

\* C13: the text-generation API is called at most once per job, only after
\* every planned chunk was transcribed and with the full joined transcript;
\* never after a failed transcription, and not again when it fails.
C13_AnalysisOnce ==
    /\ analysisCalls <= 1
    /\ Len(analysisInput) = analysisCalls
    /\ (analysisCalls = 1) =>
          /\ pc = "returned"
          /\ err = "none"
          /\ Len(responses) = Len(chunks)
          /\ analysisInput[1] = result
          /\ result = FirstTexts(Len(chunks))

C13_Witness ==
    /\ analysisCalls = 1
    /\ Len(chunks) = 3
    /\ analysisInput[1] = result
    /\ mpc \in {"exit1", "crashed"} \/ jobResult = Raised("analysis")

\* ---- two URL jobs on their own threads (app.process_url starts one
\* ---- thread per request; both run process_url of the one service) ----

\* the output template names the file after the title of what the URL
\* holds: the file of job j is file j of audio/
FileOf(j) == j

\* glob.glob("audio/downloaded_*.mp3")
Mp3Files(dir) == {f \in Jobs : dir[f] # 0}

\* max(mp3_files, key=os.path.getctime)
Newest(dir) == CHOOSE f \in Mp3Files(dir) :
                   \A g \in Mp3Files(dir) : dir[g] <= dir[f]

\* the request handler starts the thread of the job
UrlStart(j) ==
    /\ upc[j] = "new"
    /\ upc' = [upc EXCEPT ![j] = "ytdlp"]
    /\ UNCHANGED <<audioDir, clock, downloaded_file, transcribed, removed>>
    /\ UNCHANGED <<coreVars, monitorVars, promptVars, keyVars, appVars,
                   dictVars, guiVars, redirVars, envVars>>

\* subprocess.run(cmd, check=True, timeout=600) writes the file of the URL
YtDlp(j) ==
    /\ upc[j] = "ytdlp"
    /\ clock' = clock + 1
    /\ audioDir' = [audioDir EXCEPT ![FileOf(j)] = clock']
    /\ upc' = [upc EXCEPT ![j] = "glob"]
    /\ UNCHANGED <<downloaded_file, transcribed, removed>>
    /\ UNCHANGED <<coreVars, monitorVars, promptVars, keyVars, appVars,
                   dictVars, guiVars, redirVars, envVars>>

\* yt-dlp exits non-zero or times out: download_from_url raises
YtDlpFail(j) ==
    /\ upc[j] = "ytdlp"
    /\ upc' = [upc EXCEPT ![j] = "failed"]
    /\ UNCHANGED <<audioDir, clock, downloaded_file, transcribed, removed>>
    /\ UNCHANGED <<coreVars, monitorVars, promptVars, keyVars, appVars,
                   dictVars, guiVars, redirVars, envVars>>

\* the glob of audio/ and the choice of the newest file
SelectDownload(j) ==
    /\ upc[j] = "glob"
    /\ IF Mp3Files(audioDir) = {}
       THEN /\ upc' = [upc EXCEPT ![j] = "failed"]
            /\ UNCHANGED downloaded_file
       ELSE /\ downloaded_file' =
                  [downloaded_file EXCEPT ![j] = Newest(audioDir)]
            /\ upc' = [upc EXCEPT ![j] = "process"]
    /\ UNCHANGED <<audioDir, clock, transcribed, removed>>
    /\ UNCHANGED <<coreVars, monitorVars, promptVars, keyVars, appVars,
                   dictVars, guiVars, redirVars, envVars>>

\* process_file(downloaded_file): transcribe_audio raises when the file is
\* not there, and transcribes what the file holds otherwise
ProcessDownloaded(j) ==
    /\ upc[j] = "process"
    /\ IF audioDir[downloaded_file[j]] = 0
       THEN UNCHANGED transcribed
       ELSE transcribed' = [transcribed EXCEPT ![j] = downloaded_file[j]]
    /\ upc' = [upc EXCEPT ![j] = "cleanup"]
    /\ UNCHANGED <<audioDir, clock, downloaded_file, removed>>
    /\ UNCHANGED <<coreVars, monitorVars, promptVars, keyVars, appVars,
                   dictVars, guiVars, redirVars, envVars>>

\* process_file raises for a reason of its own (the transcription or the
\* analysis fails)
ProcessFail(j) ==
    /\ upc[j] = "process"
    /\ upc' = [upc EXCEPT ![j] = "cleanup"]
    /\ UNCHANGED <<audioDir, clock, downloaded_file, transcribed, removed>>
    /\ UNCHANGED <<coreVars, monitorVars, promptVars, keyVars, appVars,
                   dictVars, guiVars, redirVars, envVars>>

\* finally: if os.path.exists(downloaded_file): os.remove(downloaded_file)
CleanupDownloaded(j) ==
    /\ upc[j] = "cleanup"
    /\ IF audioDir[downloaded_file[j]] # 0
       THEN /\ audioDir' = [audioDir EXCEPT ![downloaded_file[j]] = 0]
            /\ removed' = [removed EXCEPT ![j] = downloaded_file[j]]
       ELSE UNCHANGED <<audioDir, removed>>
    /\ upc' = [upc EXCEPT ![j] = IF transcribed[j] = Nothing
                                 THEN "failed" ELSE "done"]
    /\ UNCHANGED <<clock, downloaded_file, transcribed>>
    /\ UNCHANGED <<coreVars, monitorVars, promptVars, keyVars, appVars,
                   dictVars, guiVars, redirVars, envVars>>

UrlNext ==
    \E j \in Jobs :
        \/ UrlStart(j)
        \/ YtDlp(j)
        \/ YtDlpFail(j)
        \/ SelectDownload(j)
        \/ ProcessDownloaded(j)
        \/ ProcessFail(j)
        \/ CleanupDownloaded(j)

\* the state of the single-job variables while the URL jobs are looked at
CoreIdle ==
    /\ variant = "web"
    /\ inputKind = "url"
    /\ jobType = "url"
    /\ pc = "idle"
    /\ duration = 0
    /\ max_duration = DefaultMaxDuration
    /\ overlap = DefaultOverlap
    /\ mpc = "created"
    /\ status = "created"
    /\ emailEnabled = FALSE
    /\ InitLocals

UrlInit ==
    /\ CoreIdle
    /\ EnvIdle
    /\ RedirIdle
    /\ GuiIdle
    /\ DictIdle
    /\ AppIdle
    /\ KeyIdle
    /\ MonitorIdle
    /\ PromptIdle
    /\ UrlIdle

UrlSpec == UrlInit /\ [][UrlNext]_vars

\* ---- the e-mail monitor: main's polling loop around process_emails ----

\* the ids of a search answer come in ascending order
RECURSIVE Ascending(_)
Ascending(S) ==
    IF S = {} THEN <<>>
    ELSE LET m == CHOOSE x \in S : \A y \in S : x <= y
         IN <<m>> \o Ascending(S \ {m})

\* mail.search(None, 'UNSEEN')
Search(u) == Ascending(u)

\* the for loop goes on with the next message, and process_emails returns
\* to main's sleep after the last one
NextMessage ==
    /\ message_ids' = Tail(message_ids)
    /\ epc' = IF Len(message_ids) = 1 THEN "sleep" ELSE "fetch"

\* while True: processor.process_emails(folder), up to the search
Poll ==
    /\ epc = "sleep"
    /\ cycle < MaxCycles
    /\ cycle' = cycle + 1
    /\ message_ids' = Search(unseen)
    /\ epc' = IF unseen = {} THEN "sleep" ELSE "fetch"
    /\ UNCHANGED <<unseen, msgKind, implicitSeen, failed, retried>>
    /\ UNCHANGED <<coreVars, urlVars, promptVars, keyVars, appVars,
                   dictVars, guiVars, redirVars, envVars>>

\* connect_imap, select or search raises: the cycle ends in the outer except
PollFail ==
    /\ epc = "sleep"
    /\ cycle < MaxCycles
    /\ cycle' = cycle + 1
    /\ UNCHANGED <<epc, unseen, msgKind, implicitSeen, message_ids, failed,
                   retried>>
    /\ UNCHANGED <<coreVars, urlVars, promptVars, keyVars, appVars,
                   dictVars, guiVars, redirVars, envVars>>

\* mail.fetch(msg_id, '(RFC822)') answers OK
Fetch ==
    /\ epc = "fetch"
    /\ unseen' = IF implicitSeen THEN unseen \ {Head(message_ids)} ELSE unseen
    /\ epc' = "process"
    /\ UNCHANGED <<cycle, msgKind, implicitSeen, message_ids, failed, retried>>
    /\ UNCHANGED <<coreVars, urlVars, promptVars, keyVars, appVars,
                   dictVars, guiVars, redirVars, envVars>>

\* if status != 'OK': continue
FetchFail ==
    /\ epc = "fetch"
    /\ NextMessage
    /\ UNCHANGED <<cycle, unseen, msgKind, implicitSeen, failed, retried>>
    /\ UNCHANGED <<coreVars, urlVars, promptVars, keyVars, appVars,
                   dictVars, guiVars, redirVars, envVars>>

\* transcribe_audio and create_financial_summary succeed: the reply is
\* sent and the message is stored as \Seen
ProcessMessage ==
    /\ epc = "process"
    /\ LET m == Head(message_ids) IN
          /\ retried' = IF m \in failed THEN retried \cup {m} ELSE retried
          /\ unseen' = unseen \ {m}
    /\ NextMessage
    /\ UNCHANGED <<cycle, msgKind, implicitSeen, failed>>
    /\ UNCHANGED <<coreVars, urlVars, promptVars, keyVars, appVars,
                   dictVars, guiVars, redirVars, envVars>>

\* transcribe_audio or create_financial_summary raises: the loop over the
\* links catches it and the message is stored as \Seen further down; the
\* loop over the attachments has no except, so the handler of the message
\* catches it and goes on to the next message
ProcessMessageFail ==
    /\ epc = "process"
    /\ LET m == Head(message_ids) IN
          /\ retried' = IF m \in failed THEN retried \cup {m} ELSE retried
          /\ failed' = failed \cup {m}
          /\ unseen' = IF msgKind[m] = "link" THEN unseen \ {m} ELSE unseen
    /\ NextMessage
    /\ UNCHANGED <<cycle, msgKind, implicitSeen>>
    /\ UNCHANGED <<coreVars, urlVars, promptVars, keyVars, appVars,
                   dictVars, guiVars, redirVars, envVars>>

MonitorNext ==
    \/ Poll
    \/ PollFail
    \/ Fetch
    \/ FetchFail
    \/ ProcessMessage
    \/ ProcessMessageFail

\* the monitor starts with unread messages in the folder
MonitorInit ==
    /\ CoreIdle
    /\ EnvIdle
    /\ RedirIdle
    /\ GuiIdle
    /\ DictIdle
    /\ AppIdle
    /\ KeyIdle
    /\ UrlIdle
    /\ PromptIdle
    /\ epc = "sleep"
    /\ cycle = 0
    /\ unseen = Msgs
    /\ msgKind \in [Msgs -> {"link", "attachment"}]
    /\ implicitSeen \in BOOLEAN
    /\ message_ids = <<>>
    /\ failed = {}
    /\ retried = {}

MonitorSpec == MonitorInit /\ [][MonitorNext]_vars

\* ---- format_summary_prompt ----

ValidLengthsWithoutDetailed == {"short", "medium"}
\* if length not in ("short", "medium", "detailed")
ValidLengths == {"short", "medium", "detailed"}

\* the words of the two string literals around {length}
Opening == <<"Summarize", "the", "following", "transcript", "into", "a">>
Closing == <<"concise", "summary.", "Keep", "key", "points,", "speakers",
             "if", "clear,", "and", "action", "items", "when", "present:",
             "\n\n">>

\* the f-string of the return statement
PromptFor(t, l) == Opening \o <<l>> \o Closing \o t

\* return (f"Summarize ... {length} ... {transcript}")
FormatPrompt ==
    /\ ppc = "call"
    /\ length \in ValidLengths
    /\ prompt' = PromptFor(transcript, length)
    /\ ppc' = "returned"
    /\ UNCHANGED <<length, transcript>>
    /\ UNCHANGED <<coreVars, urlVars, monitorVars, keyVars, appVars,
                   dictVars, guiVars, redirVars, envVars>>

\* raise ValueError("length must be 'short', 'medium', or 'detailed'")
FormatPromptRaise ==
    /\ ppc = "call"
    /\ length \notin ValidLengths
    /\ ppc' = "ValueError"
    /\ UNCHANGED <<length, transcript, prompt>>
    /\ UNCHANGED <<coreVars, urlVars, monitorVars, keyVars, appVars,
                   dictVars, guiVars, redirVars, envVars>>

PromptNext == FormatPrompt \/ FormatPromptRaise

\* the length values and the transcript words the calls are made with
Lengths == {"short", "medium", "detailed", "tiny", "Short", ""}
Words == {"Hello", "world", "short"}
Transcripts == UNION {[1..n -> Words] : n \in 0..MaxWords}

PromptInit ==
    /\ CoreIdle
    /\ EnvIdle
    /\ RedirIdle
    /\ GuiIdle
    /\ DictIdle
    /\ AppIdle
    /\ KeyIdle
    /\ UrlIdle
    /\ MonitorIdle
    /\ ppc = "call"
    /\ length \in Lengths
    /\ transcript \in Transcripts
    /\ prompt = NoPrompt

PromptSpec == PromptInit /\ [][PromptNext]_vars

\* ---- load_api_key ----

\* a string is known by the source it was put in, by how it begins and by
\* its length; None is the string of no source
KeyString(i, p, n) == [src |-> i, prefix |-> p, len |-> n]
None == KeyString(0, "none", 0)

\* if not key or not isinstance(key, str): return False
\* return key.startswith('sk-') and len(key) >= 40
IsValidApiKey(k) ==
    /\ k # None
    /\ k.len # 0
    /\ k.prefix = "sk-" /\ k.len >= MinKeyLength

\* line.split("=", 1)[1].strip().strip("'\""): the value without its quotes
ValueOf(line) == line.key

\* for line in f: the first OPENAI_API_KEY= line with a valid value
RECURSIVE FirstValidLine(_)
FirstValidLine(lines) ==
    IF lines = <<>> THEN None
    ELSE IF Head(lines).name = "OPENAI_API_KEY"
            /\ IsValidApiKey(ValueOf(Head(lines)))
         THEN ValueOf(Head(lines))
         ELSE FirstValidLine(Tail(lines))

\* os.path.exists is true and open and read do not raise
Readable(f) == f.state = "ok"

\* key = os.environ.get("OPENAI_API_KEY")
TryEnviron ==
    /\ kpc = "environ"
    /\ IF IsValidApiKey(environ)
       THEN key' = environ /\ kpc' = "returned"
       ELSE key' = key /\ kpc' = "dotenv"
    /\ UNCHANGED <<environ, dotenvFile, homeKeyFile, cwdKeyFile>>
    /\ UNCHANGED <<coreVars, urlVars, monitorVars, promptVars, appVars,
                   dictVars, guiVars, redirVars, envVars>>

TryDotEnvGivesUp ==
    /\ kpc = "dotenv"
    /\ IF Readable(dotenvFile) /\ FirstValidLine(dotenvFile.lines) # None
       THEN key' = FirstValidLine(dotenvFile.lines) /\ kpc' = "returned"
       ELSE IF dotenvFile.state = "unreadable"
            THEN key' = None /\ kpc' = "returned"
            ELSE key' = key /\ kpc' = "home"
    /\ UNCHANGED <<environ, dotenvFile, homeKeyFile, cwdKeyFile>>
    /\ UNCHANGED <<coreVars, urlVars, monitorVars, promptVars, appVars,
                   dictVars, guiVars, redirVars, envVars>>

\* if os.path.exists(".env"): try: ... except: pass
TryDotEnv ==
    /\ kpc = "dotenv"
    /\ IF Readable(dotenvFile) /\ FirstValidLine(dotenvFile.lines) # None
       THEN key' = FirstValidLine(dotenvFile.lines) /\ kpc' = "returned"
       ELSE key' = key /\ kpc' = "home"
    /\ UNCHANGED <<environ, dotenvFile, homeKeyFile, cwdKeyFile>>
    /\ UNCHANGED <<coreVars, urlVars, monitorVars, promptVars, appVars,
                   dictVars, guiVars, redirVars, envVars>>

\* if os.path.exists(openai_config): try: ... except: pass
TryHomeFile ==
    /\ kpc = "home"
    /\ IF Readable(homeKeyFile) /\ IsValidApiKey(homeKeyFile.key)
       THEN key' = homeKeyFile.key /\ kpc' = "returned"
       ELSE key' = key /\ kpc' = "cwd"
    /\ UNCHANGED <<environ, dotenvFile, homeKeyFile, cwdKeyFile>>
    /\ UNCHANGED <<coreVars, urlVars, monitorVars, promptVars, appVars,
                   dictVars, guiVars, redirVars, envVars>>

\* if os.path.exists("api_key"): try: ... except: pass; return None
TryCwdFile ==
    /\ kpc = "cwd"
    /\ key' = IF Readable(cwdKeyFile) /\ IsValidApiKey(cwdKeyFile.key)
              THEN cwdKeyFile.key
              ELSE None
    /\ kpc' = "returned"
    /\ UNCHANGED <<environ, dotenvFile, homeKeyFile, cwdKeyFile>>
    /\ UNCHANGED <<coreVars, urlVars, monitorVars, promptVars, appVars,
                   dictVars, guiVars, redirVars, envVars>>

KeyNext == TryEnviron \/ TryDotEnv \/ TryHomeFile \/ TryCwdFile

\* the strings source i may hold: empty, too short, not beginning with
\* sk-, and a valid key
StringsOf(i) ==
    {KeyString(i, "", 0), KeyString(i, "sk-", MinKeyLength - 1),
     KeyString(i, "pk-", MinKeyLength + 11), KeyString(i, "sk-", MinKeyLength)}

OtherLine == [name |-> "OTHER", quote |-> "", key |-> None]
KeyLines == {[name |-> "OPENAI_API_KEY", quote |-> q, key |-> k] :
                 q \in {"", "'"}, k \in StringsOf(2)}
DotEnvLines == UNION {[1..n -> KeyLines \cup {OtherLine}] : n \in 0..MaxLines}

KeyFiles(i) ==
    {[state |-> st, key |-> None] : st \in {"absent", "unreadable"}}
        \cup {[state |-> "ok", key |-> k] : k \in StringsOf(i)}

KeyInit ==
    /\ CoreIdle
    /\ EnvIdle
    /\ RedirIdle
    /\ GuiIdle
    /\ DictIdle
    /\ AppIdle
    /\ UrlIdle
    /\ MonitorIdle
    /\ PromptIdle
    /\ kpc = "environ"
    /\ environ \in StringsOf(1) \cup {None}
    /\ dotenvFile \in
          {[state |-> st, lines |-> <<>>] : st \in {"absent", "unreadable"}}
              \cup {[state |-> "ok", lines |-> ls] : ls \in DotEnvLines}
    /\ homeKeyFile \in KeyFiles(3)
    /\ cwdKeyFile \in KeyFiles(4)
    /\ key = None

KeySpec == KeyInit /\ [][KeyNext]_vars

\* ---- the web application: upload, process_url, download ----

\* ALLOWED_EXTENSIONS
AllowedExtensions ==
    {"mp3", "wav", "m4a", "mp4", "mov", "avi", "webm", "flv", "mkv"}

\* str.lower on the extensions the requests use
Lower(ext) == IF ext = "MP3" THEN "mp3" ELSE ext

\* a file name: whether it has a dot, and what follows the last dot
FileName(stem, dot, ext) == [stem |-> stem, dot |-> dot, ext |-> ext]
EmptyName == FileName("", FALSE, "")

\* '.' in filename and filename.rsplit('.', 1)[1].lower() in ALLOWED_EXTENSIONS
AllowedFile(f) == f.dot /\ Lower(f.ext) \in AllowedExtensions

\* a URL: how it begins and what follows
Url(scheme, rest) == [scheme |-> scheme, rest |-> rest]
EmptyUrl == Url("", "")

\* path.startswith("http://") or path.startswith("https://")
IsUrl(u) == u.scheme \in {"http://", "https://"}

\* the file names and URLs of the requests
UploadNames ==
    {EmptyName, FileName("talk", TRUE, "mp3"), FileName("TALK", TRUE, "MP3"),
     FileName("notes", TRUE, "exe"), FileName("README", FALSE, "")}
FormUrls ==
    {EmptyUrl, Url("https://", "host/talk.mp3"), Url("http://", "host/talk"),
     Url("ftp://", "host/talk.mp3"), Url("", "talk.mp3")}

\* str(uuid.uuid4()): an id no job has
FreshIds == {id \in JobIds : jobs[id] = "absent"}

\* create_job, then threading.Thread(target=process_job).start()
CreateAndStart(id) ==
    /\ jobs' = [jobs EXCEPT ![id] = "created"]
    /\ threads' = [threads EXCEPT ![id] = threads[id] + 1]

Rejected(code) ==
    /\ reply' = [code |-> code]
    /\ UNCHANGED <<jobs, threads>>

\* create_job with a fresh id, the start of the thread, and the answer
Accepted ==
    \E id \in FreshIds :
        /\ CreateAndStart(id)
        /\ reply' = [code |-> 200, job_id |-> id]

UploadCreatesBeforeKeyCheck ==
    \E part \in BOOLEAN, f \in UploadNames, keyOk \in BOOLEAN,
       saved \in BOOLEAN :
        /\ request' = [handler |-> "upload", part |-> part, file |-> f,
                       keyOk |-> keyOk]
        /\ IF ~part \/ f = EmptyName \/ ~AllowedFile(f)
           THEN Rejected(400)
           ELSE IF ~keyOk
                THEN \E id \in FreshIds :
                         /\ CreateAndStart(id)
                         /\ reply' = [code |-> 400]
                ELSE IF ~saved THEN Rejected(500) ELSE Accepted
        /\ UNCHANGED <<coreVars, urlVars, monitorVars, promptVars, keyVars,
                       dictVars, guiVars, redirVars, envVars>>

\* POST /upload: the part, the file name, the extension and the API key are
\* checked, the file is saved, the job is created and its thread started
Upload ==
    \E part \in BOOLEAN, f \in UploadNames, keyOk \in BOOLEAN,
       saved \in BOOLEAN :
        /\ request' = [handler |-> "upload", part |-> part, file |-> f,
                       keyOk |-> keyOk]
        /\ IF ~part \/ f = EmptyName \/ ~AllowedFile(f) \/ ~keyOk
           THEN Rejected(400)
           ELSE IF ~saved THEN Rejected(500) ELSE Accepted
        /\ UNCHANGED <<coreVars, urlVars, monitorVars, promptVars, keyVars,
                       dictVars, guiVars, redirVars, envVars>>

\* POST /process_url: the URL and the API key are checked, the job is
\* created and its thread started
ProcessUrl ==
    \E u \in FormUrls, keyOk \in BOOLEAN :
        /\ request' = [handler |-> "process_url", url |-> u, keyOk |-> keyOk]
        /\ IF u = EmptyUrl \/ ~IsUrl(u) \/ ~keyOk
           THEN Rejected(400)
           ELSE Accepted
        /\ UNCHANGED <<coreVars, urlVars, monitorVars, promptVars, keyVars,
                       dictVars, guiVars, redirVars, envVars>>

\* the thread of a job begins process_transcription
ThreadRuns(id) ==
    /\ jobs[id] = "created"
    /\ threads[id] > 0
    /\ jobs' = [jobs EXCEPT ![id] = "processing"]
    /\ UNCHANGED <<threads, request, reply>>
    /\ UNCHANGED <<coreVars, urlVars, monitorVars, promptVars, keyVars,
                   dictVars, guiVars, redirVars, envVars>>

\* process_transcription ends
ThreadEnds(id) ==
    /\ jobs[id] = "processing"
    /\ \E st \in {"completed", "failed"} :
          jobs' = [jobs EXCEPT ![id] = st]
    /\ UNCHANGED <<threads, request, reply>>
    /\ UNCHANGED <<coreVars, urlVars, monitorVars, promptVars, keyVars,
                   dictVars, guiVars, redirVars, envVars>>

FileTypes == {"transcript", "summary", "pdf"}

DownloadRouteWhenFinished ==
    \E id \in JobIds, ft \in FileTypes \cup {"html"}, onDisk \in BOOLEAN :
        /\ request' = [handler |-> "download", job_id |-> id, file_type |-> ft,
                       onDisk |-> onDisk]
        /\ reply' =
              IF jobs[id] = "absent" THEN [code |-> 404]
              ELSE IF jobs[id] \notin {"completed", "failed"} THEN [code |-> 400]
              ELSE IF ft \notin FileTypes THEN [code |-> 400]
              ELSE IF ~onDisk THEN [code |-> 404]
              ELSE [code |-> 200, sent |-> <<id, ft>>]
        /\ UNCHANGED <<jobs, threads>>
        /\ UNCHANGED <<coreVars, urlVars, monitorVars, promptVars, keyVars,
                       dictVars, guiVars, redirVars, envVars>>

\* GET /download/<job_id>/<file_type>
DownloadRoute ==
    \E id \in JobIds, ft \in FileTypes \cup {"html"}, onDisk \in BOOLEAN :
        /\ request' = [handler |-> "download", job_id |-> id, file_type |-> ft,
                       onDisk |-> onDisk]
        /\ reply' =
              IF jobs[id] = "absent" THEN [code |-> 404]
              ELSE IF jobs[id] # "completed" THEN [code |-> 400]
              ELSE IF ft \notin FileTypes THEN [code |-> 400]
              ELSE IF ~onDisk THEN [code |-> 404]
              ELSE [code |-> 200, sent |-> <<id, ft>>]
        /\ UNCHANGED <<jobs, threads>>
        /\ UNCHANGED <<coreVars, urlVars, monitorVars, promptVars, keyVars,
                       dictVars, guiVars, redirVars, envVars>>

AppNext ==
    \/ Upload
    \/ ProcessUrl
    \/ \E id \in JobIds : ThreadRuns(id) \/ ThreadEnds(id)
    \/ DownloadRoute

AppInit ==
    /\ CoreIdle
    /\ EnvIdle
    /\ RedirIdle
    /\ GuiIdle
    /\ DictIdle
    /\ UrlIdle
    /\ MonitorIdle
    /\ PromptIdle
    /\ KeyIdle
    /\ AppIdle

AppSpec == AppInit /\ [][AppNext]_vars

\* ---- the GUI: process_file's worker thread and the log queue ----

Touch(thread, widgets) == touched \cup {<<thread, w>> : w \in widgets}

\* log_message called on a thread: the entry is put on log_queue and
\* inserted into console_text by the calling thread
LogMessage(thread, message, others) ==
    /\ log_queue' = Append(log_queue, message)
    /\ touched' = Touch(thread, {"console_text"} \cup others)

\* the UI callback process_file: a file was chosen and the thread started
StartWorker ==
    /\ wpc = "idle"
    /\ wpc' = "begin"
    /\ outputLeft' \in 0..MaxOutput
    /\ UNCHANGED <<log_queue, log_text, touched>>
    /\ UNCHANGED <<coreVars, urlVars, monitorVars, promptVars, keyVars,
                   appVars, dictVars, redirVars, envVars>>

\* run_process: status_label.config and status_bar.config
WorkerBegin ==
    /\ wpc = "begin"
    /\ touched' = Touch("worker", {"status_label", "status_bar"})
    /\ wpc' = "check"
    /\ UNCHANGED <<outputLeft, log_queue, log_text>>
    /\ UNCHANGED <<coreVars, urlVars, monitorVars, promptVars, keyVars,
                   appVars, dictVars, redirVars, envVars>>

\* run_process: transcribe_financial.py is not there
WorkerScriptMissing ==
    /\ wpc = "check"
    /\ LogMessage("worker", <<"error", 0>>, {"status_label"})
    /\ wpc' = "ended"
    /\ UNCHANGED <<outputLeft, log_text>>
    /\ UNCHANGED <<coreVars, urlVars, monitorVars, promptVars, keyVars,
                   appVars, dictVars, redirVars, envVars>>

\* run_process: the command is built (send_email_var.get()) and the
\* subprocess launched
WorkerLaunch ==
    /\ wpc = "check"
    /\ LogMessage("worker", <<"launched", 0>>, {"send_email_var"})
    /\ wpc' = "stream"
    /\ UNCHANGED <<outputLeft, log_text>>
    /\ UNCHANGED <<coreVars, urlVars, monitorVars, promptVars, keyVars,
                   appVars, dictVars, redirVars, envVars>>

\* run_process: one line of the subprocess is read and logged
WorkerReadLine ==
    /\ wpc = "stream"
    /\ outputLeft > 0
    /\ LogMessage("worker", <<"output", outputLeft>>, {})
    /\ outputLeft' = outputLeft - 1
    /\ UNCHANGED <<wpc, log_text>>
    /\ UNCHANGED <<coreVars, urlVars, monitorVars, promptVars, keyVars,
                   appVars, dictVars, redirVars, envVars>>

\* run_process: the subprocess has ended; the result is logged and shown
\* in status_label and status_bar
WorkerFinish ==
    /\ wpc = "stream"
    /\ outputLeft = 0
    /\ \E rc \in {0, 1} :
          LogMessage("worker", <<"exit", rc>>, {"status_label", "status_bar"})
    /\ wpc' = "ended"
    /\ UNCHANGED <<outputLeft, log_text>>
    /\ UNCHANGED <<coreVars, urlVars, monitorVars, promptVars, keyVars,
                   appVars, dictVars, redirVars, envVars>>

\* process_log_queue, run by root.after on the UI thread: the queue is
\* emptied into log_text and the last message shown in status_bar
ProcessLogQueue ==
    /\ log_queue # <<>>
    /\ log_text' = log_text \o log_queue
    /\ log_queue' = <<>>
    /\ touched' = Touch("ui", {"log_text", "status_bar"})
    /\ UNCHANGED <<wpc, outputLeft>>
    /\ UNCHANGED <<coreVars, urlVars, monitorVars, promptVars, keyVars,
                   appVars, dictVars, redirVars, envVars>>

\* the UI callback clear_log: log_text is emptied and "Log cleared" logged
ClearLog ==
    /\ Len(log_queue) < MaxQueue
    /\ log_text' = <<>>
    /\ LogMessage("ui", <<"cleared", 0>>, {"log_text"})
    /\ UNCHANGED <<wpc, outputLeft>>
    /\ UNCHANGED <<coreVars, urlVars, monitorVars, promptVars, keyVars,
                   appVars, dictVars, redirVars, envVars>>

GuiNext ==
    \/ StartWorker
    \/ WorkerBegin
    \/ WorkerScriptMissing
    \/ WorkerLaunch
    \/ WorkerReadLine
    \/ WorkerFinish
    \/ ProcessLogQueue
    \/ ClearLog

GuiInit ==
    /\ CoreIdle
    /\ EnvIdle
    /\ RedirIdle
    /\ UrlIdle
    /\ MonitorIdle
    /\ PromptIdle
    /\ KeyIdle
    /\ AppIdle
    /\ DictIdle
    /\ GuiIdle

GuiSpec == GuiInit /\ [][GuiNext]_vars

\* ---- EmailProcessor.follow_redirect_chain ----

InLoopWhileTrue == rpc = "loop"

\* for i in range(max_redirects): another iteration begins
InLoop == rpc = "loop" /\ iteration < max_redirects

\* return current_url
ReturnCurrent ==
    /\ rpc' = "returned"
    /\ returned' = current_url

\* visited_urls.add(current_url), then the request
BeginRequest(kind) ==
    /\ InLoop
    /\ response' = kind
    /\ current_url \notin visited_urls
    /\ visited_urls' = visited_urls \cup {current_url}
    /\ iteration' = iteration + 1

\* the redirect is taken and the loop goes on
GoTo(u) ==
    /\ current_url' = u
    /\ UNCHANGED <<rpc, returned>>

\* break
Break ==
    /\ ReturnCurrent
    /\ UNCHANGED current_url

\* import requests or urllib.parse fails: the outer except returns url
ImportFails ==
    /\ rpc = "called"
    /\ rpc' = "returned"
    /\ returned' = url
    /\ UNCHANGED <<url, max_redirects, current_url, visited_urls, response,
                   iteration>>
    /\ UNCHANGED <<coreVars, urlVars, monitorVars, promptVars, keyVars,
                   appVars, dictVars, guiVars, envVars>>

\* current_url = url, visited_urls = set()
EnterLoop ==
    /\ rpc = "called"
    /\ rpc' = "loop"
    /\ current_url' = url
    /\ visited_urls' = {}
    /\ UNCHANGED <<url, max_redirects, response, iteration, returned>>
    /\ UNCHANGED <<coreVars, urlVars, monitorVars, promptVars, keyVars,
                   appVars, dictVars, guiVars, envVars>>

\* if current_url in visited_urls: break
LoopDetected ==
    /\ InLoop
    /\ current_url \in visited_urls
    /\ iteration' = iteration + 1
    /\ Break
    /\ UNCHANGED <<url, max_redirects, visited_urls, response>>
    /\ UNCHANGED <<coreVars, urlVars, monitorVars, promptVars, keyVars,
                   appVars, dictVars, guiVars, envVars>>

\* status 301, 302, 303, 307 or 308: Location is followed, or the loop left
\* when the header is missing
FollowRedirect ==
    /\ BeginRequest("3xx")
    /\ \/ \E location \in Urls : GoTo(location)
       \/ Break
    /\ UNCHANGED <<url, max_redirects>>
    /\ UNCHANGED <<coreVars, urlVars, monitorVars, promptVars, keyVars,
                   appVars, dictVars, guiVars, envVars>>

\* status 200: a meta refresh or a JavaScript redirect is followed, any other
\* page is the final one
FollowPage ==
    /\ BeginRequest("200")
    /\ \/ \E new_url \in Urls : GoTo(new_url)
       \/ Break
    /\ UNCHANGED <<url, max_redirects>>
    /\ UNCHANGED <<coreVars, urlVars, monitorVars, promptVars, keyVars,
                   appVars, dictVars, guiVars, envVars>>

\* any other status code
UnexpectedStatus ==
    /\ BeginRequest("other")
    /\ Break
    /\ UNCHANGED <<url, max_redirects>>
    /\ UNCHANGED <<coreVars, urlVars, monitorVars, promptVars, keyVars,
                   appVars, dictVars, guiVars, envVars>>

\* SSLError: the request is made again with verify=False; a redirect with a
\* Location is followed, everything else and every exception leaves the loop
SslRetry ==
    /\ BeginRequest("SSLError")
    /\ \/ \E location \in Urls : GoTo(location)
       \/ Break
    /\ UNCHANGED <<url, max_redirects>>
    /\ UNCHANGED <<coreVars, urlVars, monitorVars, promptVars, keyVars,
                   appVars, dictVars, guiVars, envVars>>

\* any other exception of the request
RequestFails ==
    /\ BeginRequest("Exception")
    /\ Break
    /\ UNCHANGED <<url, max_redirects>>
    /\ UNCHANGED <<coreVars, urlVars, monitorVars, promptVars, keyVars,
                   appVars, dictVars, guiVars, envVars>>

\* the range is used up
LoopExhausted ==
    /\ rpc = "loop"
    /\ iteration >= max_redirects
    /\ Break
    /\ UNCHANGED <<url, max_redirects, visited_urls, response, iteration>>
    /\ UNCHANGED <<coreVars, urlVars, monitorVars, promptVars, keyVars,
                   appVars, dictVars, guiVars, envVars>>

RedirNext ==
    \/ ImportFails
    \/ EnterLoop
    \/ LoopDetected
    \/ FollowRedirect
    \/ FollowPage
    \/ UnexpectedStatus
    \/ SslRetry
    \/ RequestFails
    \/ LoopExhausted

RedirInit ==
    /\ CoreIdle
    /\ EnvIdle
    /\ UrlIdle
    /\ MonitorIdle
    /\ PromptIdle
    /\ KeyIdle
    /\ AppIdle
    /\ DictIdle
    /\ GuiIdle
    /\ rpc = "called"
    /\ url \in Urls
    /\ max_redirects \in (0..MaxRedirects) \cup {DefaultMaxRedirects}
    /\ current_url = 0
    /\ visited_urls = {}
    /\ response = "none"
    /\ iteration = 0
    /\ returned = NoUrl

RedirSpec == RedirInit /\ [][RedirNext]_vars

\* ---- the web settings page: save_settings ----

\* a line of .env is the sequence of its pieces, which the two characters
\* backslash and n separate; a piece is NAME=value or blank
Piece(name, value) == [name |-> name, value |-> value]
Blank == Piece("", "")

\* line.startswith(key + '=')
StartsWith(line, prefix) == line[1].name = prefix

\* if line and not any(line.startswith(key + '=') for key in settings.keys())
KeptLine(line) ==
    /\ line # <<Blank>>
    /\ ~\E i \in 1..Len(SettingKeys) : StartsWith(line, SettingKeys[i])

\* for key, value in settings.items(): if value: env_lines.append(NAME=value)
RECURSIVE NewLines(_, _)
NewLines(settings, i) ==
    IF i > Len(SettingKeys) THEN <<>>
    ELSE LET setting == SettingKeys[i]
             rest == NewLines(settings, i + 1)
         IN IF settings[setting] # ""
            THEN <<<<Piece(EnvName(setting), settings[setting])>>>> \o rest
            ELSE rest

\* '\\n'.join(env_lines) + '\\n': the separator is a backslash and an n
RECURSIVE JoinLines(_)
JoinLines(lines) ==
    IF lines = <<>> THEN <<>> ELSE Head(lines) \o JoinLines(Tail(lines))

Written(env_lines) ==
    (IF env_lines = <<>> THEN <<Blank>> ELSE JoinLines(env_lines)) \o <<Blank>>

\* os.environ[NAME] = value for the values that are not empty
Exported(settings) ==
    [n \in EnvNames |->
        LET i == CHOOSE j \in 1..Len(SettingKeys) : EnvName(SettingKeys[j]) = n
        IN IF settings[SettingKeys[i]] # "" THEN settings[SettingKeys[i]]
           ELSE os_environ[n]]

\* the values a form field can have after strip()
FieldValues(setting) ==
    IF setting \in {"openai_api_key", "sender_email"} THEN {"", "a", "b"}
    ELSE {"", "a"}

Forms ==
    {f \in [{SettingKeys[i] : i \in 1..Len(SettingKeys)} -> {"", "a", "b"}] :
        \A i \in 1..Len(SettingKeys) :
            f[SettingKeys[i]] \in FieldValues(SettingKeys[i])}

\* POST /save_settings: the file is read, the old entries are dropped, the
\* new ones added, the file written and os.environ updated
SaveSettings ==
    /\ saves < MaxSaves
    /\ \E settings \in Forms :
          /\ env_file' = <<Written(SelectSeq(env_file, KeptLine)
                                   \o NewLines(settings, 1))>>
          /\ os_environ' = Exported(settings)
    /\ flash' = "success"
    /\ saves' = saves + 1
    /\ UNCHANGED <<coreVars, urlVars, monitorVars, promptVars, keyVars,
                   appVars, dictVars, guiVars, redirVars>>

\* POST /save_settings when .env cannot be read or written
SaveSettingsFails ==
    /\ saves < MaxSaves
    /\ flash' = "error"
    /\ saves' = saves + 1
    /\ UNCHANGED <<env_file, os_environ>>
    /\ UNCHANGED <<coreVars, urlVars, monitorVars, promptVars, keyVars,
                   appVars, dictVars, guiVars, redirVars>>

EnvNext ==
    \/ SaveSettings
    \/ SaveSettingsFails

\* the .env files the page starts from: one entry on each line
OtherEntry == Piece("FLASK_ENV", "a")
EnvFiles ==
    { <<>>,
      << <<OtherEntry>> >>,
      << <<Piece("OPENAI_API_KEY", "a")>> >>,
      << <<OtherEntry>>, <<Piece("SENDER_EMAIL", "b")>> >>,
      << <<Piece("sender_email", "a")>>, <<OtherEntry>> >> }

EnvInit ==
    /\ CoreIdle
    /\ UrlIdle
    /\ MonitorIdle
    /\ PromptIdle
    /\ KeyIdle
    /\ AppIdle
    /\ DictIdle
    /\ GuiIdle
    /\ RedirIdle
    /\ env_file \in EnvFiles
    /\ os_environ = [n \in EnvNames |-> ""]
    /\ flash = "none"
    /\ saves = 0

EnvSpec == EnvInit /\ [][EnvNext]_vars

\* ---- properties of a job ----

StageRank(st) ==
    CASE st = "downloading" -> 1
      [] st = "transcribing" -> 2
      [] st = "analyzing" -> 3
      [] st = "emailing" -> 4

\* the stages a job that completes goes through
StagesOf(type, email) ==
    (IF type = "url" THEN <<"downloading">> ELSE <<>>)
        \o <<"transcribing", "analyzing">>
        \o (IF email THEN <<"emailing">> ELSE <<>>)

HasRaised == jobResult.kind = "raised"

\* C14: the stages of a job come in the order created, downloading,
\* transcribing, analyzing, emailing, completed: downloading only for a URL,
\* emailing only when e-mail is on, no stage twice, and none before the one
\* before it has finished.
C14_StagesInOrder ==
    IsWeb =>
        /\ \A i \in 1..Len(stages) : \A j \in 1..Len(stages) :
              i < j => StageRank(stages[i]) < StageRank(stages[j])
        /\ (status = "created") => stages = <<>>
        /\ \A i \in 1..Len(stages) :
              /\ stages[i] = "downloading" => jobType = "url"
              /\ stages[i] = "emailing" => emailEnabled
              /\ (stages[i] = "transcribing" /\ jobType = "url") =>
                    (i = 2 /\ stages[1] = "downloading")
              /\ stages[i] = "analyzing" =>
                    (i > 1 /\ stages[i - 1] = "transcribing" /\ pc = "returned")
              /\ stages[i] = "emailing" =>
                    (i > 1 /\ stages[i - 1] = "analyzing" /\ analysisCalls = 1)
        /\ (status = "completed") => stages = StagesOf(jobType, emailEnabled)

C14_Witness ==
    /\ IsWeb
    /\ status = "completed"
    /\ stages = <<"downloading", "transcribing", "analyzing", "emailing">>

\* the steps that come after the step an exception was raised in have not run
NoLaterStep(step) ==
    /\ step = "download" => pc = "idle"
    /\ step # "analysis" => analysisCalls = 0
    /\ emailResult = NoMessage

C15_FailedState ==
    /\ HasRaised => NoLaterStep(jobResult.error)
    /\ (status = "failed") => (HasRaised /\ jobError = jobResult.error)
    /\ (IsCli /\ mpc \in {"exit1", "crashed"}) =>
          (outputs = {} /\ emailResult = NoMessage)

C15_FailedStep ==
    /\ HasRaised => (status' = "failed" /\ jobError' = jobResult.error
                     /\ UNCHANGED <<stages, histVars, emailResult, jobResult>>)
    /\ (status \in {"failed", "completed"}) => UNCHANGED vars
    /\ (mpc \in {"exit1", "crashed"}) => UNCHANGED vars

\* C15: an exception in the download, the transcription or the analysis
\* moves the job straight to failed with the error message: no later step
\* runs, and a failed or completed job makes no further transition.
C15_ExceptionFailsJob == []C15_FailedState /\ [][C15_FailedStep]_vars

C15_Witness ==
    /\ status = "failed"
    /\ jobError = "transcribe"
    /\ idx = 1
    /\ Len(chunks) = 3
    /\ analysisCalls = 0

\* C16: a failed e-mail delivery is not fatal: the web job keeps its result
\* with the analysis and the recorded failure and ends completed, and the
\* command line tool ends without the error exit, its report written.
C16_EmailFailureNotFatal ==
    (emailResult = "failed") =>
        IF IsWeb
        THEN /\ jobResult = Returned(result, Analysis, "failed")
             /\ status # "failed"
             /\ (mpc = "ended") => status = "completed"
        ELSE /\ mpc = "done"
             /\ "analysis" \in outputs

C16_Witness ==
    /\ IsWeb
    /\ emailResult = "failed"
    /\ status = "completed"
    /\ jobResult.analysis = Analysis

\* C17: two URL jobs running at the same time each select, transcribe and
\* remove only the file downloaded for their own URL.
C17_JobsKeepToOwnFile ==
    \A j \in Jobs :
        /\ downloaded_file[j] \in {Nothing, FileOf(j)}
        /\ transcribed[j] \in {Nothing, FileOf(j)}
        /\ removed[j] \in {Nothing, FileOf(j)}

C19_PassAdvances == (pc = "loop" /\ pc' = "loop") => start' > start

\* C19: get_audio_chunks terminates for every max_duration > 0 and every
\* overlap >= 0 a caller passes: each pass through the while loop that does
\* not return moves start forward (the loop's decisions depend on start
\* alone, so a pass that does not is repeated for ever).
C19_PlannerTerminates == [][C19_PassAdvances]_vars

\* the part of a prompt that comes before the transcript
Instruction(p, t) == SubSeq(p, 1, Len(p) - Len(t))

\* C20: format_summary_prompt accepts exactly short, medium and detailed:
\* for these it returns a prompt whose instruction names the length and
\* which ends with the whole transcript unchanged, and for any other length
\* it raises ValueError and returns nothing.
C20_PromptLengths ==
    /\ (ppc = "returned") =>
          /\ length \in {"short", "medium", "detailed"}
          /\ Len(prompt) > Len(transcript)
          /\ length \in Range(Instruction(prompt, transcript))
          /\ SubSeq(prompt, Len(prompt) - Len(transcript) + 1, Len(prompt))
                = transcript
    /\ (ppc = "ValueError") =>
          /\ length \notin {"short", "medium", "detailed"}
          /\ prompt = NoPrompt

C20_Witness ==
    /\ ppc = "returned"
    /\ length = "detailed"
    /\ transcript = <<"Hello", "world">>
    /\ prompt = Opening \o <<"detailed">> \o Closing \o <<"Hello", "world">>

\* C22: for every max_duration above the overlap and every duration, no
\* chunk of the plan is longer than max_duration + overlap + 0.5 s.
C22_ChunkWithinCallerMax ==
    (pc = "planned" /\ max_duration > overlap) =>
        \A k \in 1..Len(chunks) :
            chunks[k].len <= max_duration + overlap + Buffer

\* the least integer that is at least a / b, for a >= 0 and b > 0
CeilDiv(a, b) == (a + b - 1) \div b

\* C23: with the defaults (600 s, 10 s) and a duration above 610 s the plan
\* has exactly 1 + ceil((D - 610) / 590) chunks; chunk k, counted from 0,
\* starts at k * 590 s, every chunk before the last is exactly 600 s long
\* and the last one is D - start + 0.5 s long.
C23_ChunkCountAndShape ==
    (Planned /\ max_duration = 1200 /\ overlap = 20 /\ duration > 1220) =>
        /\ Len(chunks) = 1 + CeilDiv(duration - 1220, 1180)
        /\ \A k \in 1..Len(chunks) : chunks[k].start = (k - 1) * 1180
        /\ \A k \in 1..(Len(chunks) - 1) : chunks[k].len = 1200
        /\ Last(chunks).len = duration - Last(chunks).start + 1

C23_Witness ==
    /\ Planned
    /\ duration = 2400
    /\ chunks = <<[start |-> 0, len |-> 1200], [start |-> 1180, len |-> 1221]>>

ValidKeysIn(i) ==
    CASE i = 1 -> {k \in {environ} : IsValidApiKey(k)}
      [] i = 2 -> IF dotenvFile.state = "ok"
                  THEN {ValueOf(dotenvFile.lines[n]) :
                            n \in {m \in 1..Len(dotenvFile.lines) :
                                     /\ dotenvFile.lines[m].name = "OPENAI_API_KEY"
                                     /\ IsValidApiKey(dotenvFile.lines[m].key)}}
                  ELSE {}
      [] i = 3 -> IF homeKeyFile.state = "ok"
                  THEN {k \in {homeKeyFile.key} : IsValidApiKey(k)} ELSE {}
      [] i = 4 -> IF cwdKeyFile.state = "ok"
                  THEN {k \in {cwdKeyFile.key} : IsValidApiKey(k)} ELSE {}

\* C21: load_api_key returns a valid key of the first of its four sources
\* that holds one, whatever the sources before it are (absent, unreadable,
\* holding an invalid key), and None exactly when no source holds one.
C21_FirstValidSource ==
    (kpc = "returned") =>
        /\ (key = None) <=> (\A i \in 1..4 : ValidKeysIn(i) = {})
        /\ (key # None) =>
              \E i \in 1..4 :
                  /\ key \in ValidKeysIn(i)
                  /\ key.src = i
                  /\ \A j \in 1..(i - 1) : ValidKeysIn(j) = {}

C21_Witness ==
    /\ kpc = "returned"
    /\ environ = KeyString(1, "pk-", MinKeyLength + 11)
    /\ dotenvFile.state = "unreadable"
    /\ homeKeyFile = [state |-> "ok", key |-> KeyString(3, "sk-", MinKeyLength - 1)]
    /\ key = KeyString(4, "sk-", MinKeyLength)

\* a step in which the web application answers a request
Answers(handlers) ==
    /\ <<request, reply>>' # <<request, reply>>
    /\ request'.handler \in handlers

\* a request that names a file with an allowed extension, or an http(s)
\* URL, while the API key is configured
Acceptable(r) ==
    /\ r.keyOk
    /\ r.handler = "upload" =>
          /\ r.part
          /\ r.file.dot
          /\ r.file.ext \in {"mp3", "MP3"}
    /\ r.handler = "process_url" => r.url.scheme \in {"http://", "https://"}

C25_OneThreadPerJob ==
    \A id \in JobIds : threads[id] = IF jobs[id] = "absent" THEN 0 ELSE 1

C25_RequestStep ==
    Answers({"upload", "process_url"}) =>
        /\ (reply'.code = 200) =>
              /\ Acceptable(request')
              /\ jobs[reply'.job_id] = "absent"
              /\ jobs' = [jobs EXCEPT ![reply'.job_id] = "created"]
              /\ threads' = [threads EXCEPT ![reply'.job_id] = 1]
        /\ (reply'.code = 400) => UNCHANGED <<jobs, threads>>
        /\ ~Acceptable(request') => reply'.code = 400

\* C25: every accepted /upload or /process_url request creates exactly one
\* job under a fresh id and starts exactly one thread for it, and every
\* request answered with 400 creates no job and starts no thread.
C25_JobAndThreadPerRequest ==
    []C25_OneThreadPerJob /\ [][C25_RequestStep]_vars

C25_Witness ==
    /\ request.handler = "process_url"
    /\ request.url.scheme = "https://"
    /\ reply = [code |-> 200, job_id |-> 2]
    /\ jobs[2] = "created"
    /\ threads = [id \in JobIds |-> 1]

C26_DownloadStep ==
    Answers({"download"}) =>
        /\ (jobs[request'.job_id] = "absent") => reply'.code = 404
        /\ (jobs[request'.job_id] \in {"created", "processing", "failed"}) =>
              reply'.code = 400
        /\ (reply'.code = 200) =>
              (jobs[request'.job_id] = "completed"
               /\ reply'.sent[1] = request'.job_id)

\* C26: /download sends a file only for a known job whose status is
\* completed: an unknown job id is answered 404 and a created, processing
\* or failed job 400, for every file type.
C26_DownloadOnlyCompleted == [][C26_DownloadStep]_vars

C26_Witness ==
    /\ request.handler = "download"
    /\ request.file_type = "pdf"
    /\ request.onDisk
    /\ jobs[request.job_id] = "failed"
    /\ reply.code = 400

\* C27: process_file and process_url called without job_id and jobs_dict
\* do the same steps and return the same result as with a job dictionary:
\* no call ends with an exception raised by the progress reporting.
C27_ProgressNeverFails == jobResult # Raised("progress")

\* C28: a worker thread hands its output to the UI only through
\* log_queue, and every read or write of a Tk widget happens on the UI
\* thread.
C28_WidgetsOnUiThread == \A a \in touched : a[1] = "ui"

\* C29: follow_redirect_chain always terminates: each step in the loop
\* begins a new iteration or returns, there are at most max_redirects
\* iterations, a URL visited before ends the loop, and the value returned
\* is a URL, the last one reached or the argument.
C29_Bounded ==
    /\ iteration <= max_redirects
    /\ rpc \in {"called", "loop"} => ENABLED RedirNext
    /\ rpc = "returned" => returned \in Urls /\ returned \in {current_url, url}

C29_LoopStep ==
    rpc = "loop" =>
        /\ rpc' = "returned" \/ iteration' = iteration + 1
        /\ current_url \in visited_urls =>
               rpc' = "returned" /\ returned' = current_url

C29_RedirectsTerminate == []C29_Bounded /\ [][C29_LoopStep]_vars

\* an endless chain of new URLs was cut off by max_redirects
C29_Witness ==
    /\ rpc = "returned"
    /\ max_redirects = MaxRedirects
    /\ iteration = max_redirects
    /\ Cardinality(visited_urls) = max_redirects
    /\ current_url \notin visited_urls

\* C30: after any sequence of save_settings calls the .env file holds at
\* most one entry for each setting, and each entry is on a line of its own.
EntriesOf(line) == {i \in 1..Len(line) : line[i] # Blank}

Entries ==
    UNION {{<<l, i>> : i \in EntriesOf(env_file[l])} : l \in 1..Len(env_file)}

C30_OneLinePerSetting ==
    /\ \A n \in EnvNames :
          Cardinality({e \in Entries : env_file[e[1]][e[2]].name = n}) <= 1
    /\ \A l \in 1..Len(env_file) : Cardinality(EntriesOf(env_file[l])) <= 1

====
